---- MODULE Spec2Model ----
(***************************************************************************)
(* Model of the MST engine (mst_algorithms.py) and of its animation-trace  *)
(* generator (mst_animation.py).                                           *)
(*                                                                         *)
(* Node i of the engine lives at index i+1 of the sequences parent, rank   *)
(* and adj_list (Python lists are 0-based, TLA+ sequences 1-based).         *)
(* Python tuples are TLA+ tuples: an edge is <<u, v, weight>>, a heap      *)
(* entry is <<weight, node, parent>>.                                      *)
(***************************************************************************)
EXTENDS Integers, Sequences, FiniteSets, TLC

(* ---------------------------- bounds ---------------------------------- *)

\* largest number of nodes of an input graph
MaxN == 3

\* largest edge weight of an input graph (weights are 1..MaxW)
MaxW == 2

\* largest number of edges of an input graph
MaxEdges == 3

\* largest number of user triples handed to the graph construction
MaxTriples == 2

\* the most elements a caller of find/union makes sets of
MaxSets == 4

\* the most items of an edge list typed into the window's edges_input
MaxTyped == 1

\* what two readings of time.perf_counter() can differ by, in clock ticks:
\* nothing measurable, or something (the clock is monotonic)
ClockTicks == {0, 1}

(* ------------------------ values of the code -------------------------- *)

\* Python's None in the parent slot of a heap entry
NoParent == -1

\* Python's None as the error component of a result
NoError == "None"

EmptyGraph == "Graph is empty"

Unconnected == "Graph is unconnected-partial MST returned"

(* --------------------------- helpers ---------------------------------- *)

Range(s) == {s[k] : k \in 1..Len(s)}

\* int.bit_length(): number of bits of n >= 0
RECURSIVE bit_length(_)
bit_length(n) == IF n = 0 THEN 0 ELSE 1 + bit_length(n \div 2)

\* an insertion that puts e in front of the elements of equal key: the sort
\* is ascending but reverses ties
RECURSIVE InsertByWeight_BeforeEqual(_, _)
InsertByWeight_BeforeEqual(s, e) ==
    IF s = <<>> THEN <<e>>
    ELSE IF e[3] <= Head(s)[3] THEN <<e>> \o s
    ELSE <<Head(s)>> \o InsertByWeight_BeforeEqual(Tail(s), e)

\* sorted(edges, key=lambda x: x[2]): stable, ascending by weight.
\* Insert e behind every element whose key is <= e's key.
RECURSIVE InsertByWeight(_, _)
InsertByWeight(s, e) ==
    IF s = <<>> THEN <<e>>
    ELSE IF e[3] < Head(s)[3] THEN <<e>> \o s
    ELSE <<Head(s)>> \o InsertByWeight(Tail(s), e)

\* sorted() left out: the edges stay in input order
sorted_by_weight_Unsorted(edges) == edges

RECURSIVE sorted_by_weight(_)
sorted_by_weight(edges) ==
    IF edges = <<>> THEN <<>>
    ELSE InsertByWeight(sorted_by_weight(SubSeq(edges, 1, Len(edges) - 1)),
                        edges[Len(edges)])

\* the sum of the weights of the edges <<u, v, weight>> of es
RECURSIVE TotalWeightOf(_)
TotalWeightOf(es) == IF es = <<>> THEN 0 ELSE Head(es)[3] + TotalWeightOf(Tail(es))

(* ------------------------ the input graph ----------------------------- *)

\* A networkx Graph as the engine reads it: its nodes in iteration order and
\* graph.edges(data=True) in iteration order, each edge <<u, v, weight>>.
\* Nodes are 0..n-1 (GraphManager adds range(num_nodes)).  An undirected edge
\* is reported once, from its endpoint that comes first in node order, so
\* u < v and the u's are non-decreasing; the neighbours v of one u come in
\* the order in which the edges were added, which is any order.  An edge
\* added twice is one edge (nx.Graph keeps one weight per pair).  The graphs
\* drawn here have no self-loop, as the data model of the engine assumes.
IsNextEdge(s, e) ==
    /\ e[1] < e[2]
    /\ \A k \in 1..Len(s) : ~(s[k][1] = e[1] /\ s[k][2] = e[2])
    /\ (s # <<>> => s[Len(s)][1] <= e[1])

RECURSIVE EdgeSeqs(_, _)
EdgeSeqs(n, k) ==
    IF k = 0 THEN {<<>>}
    ELSE LET shorter == EdgeSeqs(n, k - 1)
         IN  shorter \cup
             {Append(s, <<u, v, w>>) :
                 <<s, u, v, w>> \in
                     {q \in shorter \X (0..n-1) \X (0..n-1) \X (1..MaxW) :
                         /\ Len(q[1]) = k - 1
                         /\ IsNextEdge(q[1], <<q[2], q[3], q[4]>>)}}

Graphs ==
    {[nodes |-> [i \in 1..n |-> i - 1], edges |-> es] :
        <<n, es>> \in {q \in (0..MaxN) \X EdgeSeqs(MaxN, MaxEdges) :
                          \A k \in 1..Len(q[2]) : q[2][k][2] < q[1]}}

(* ----------------------- graph construction --------------------------- *)

\* nx.Graph.add_edge(u, v, weight=w), on the graph as graph.edges(data=True)
\* reports it.  A pair already present keeps its place and takes the new
\* weight; a new pair goes to the end of the adjacency of both endpoints, so
\* it is reported last among the edges of its first endpoint in node order.
add_edge(graph, u, v, w) ==
    LET a  == IF u <= v THEN u ELSE v
        b  == IF u <= v THEN v ELSE u
        es == graph.edges
        at == {k \in 1..Len(es) : es[k][1] = a /\ es[k][2] = b}
        i  == Cardinality({k \in 1..Len(es) : es[k][1] <= a})
    IN  IF at # {}
        THEN [graph EXCEPT !.edges =
                 [k \in 1..Len(es) |-> IF k \in at THEN <<a, b, w>> ELSE es[k]]]
        ELSE [graph EXCEPT !.edges =
                 SubSeq(es, 1, i) \o <<<<a, b, w>>>> \o SubSeq(es, i + 1, Len(es))]

\* GraphManager.__init__: no graph yet
NoManager ==
    [pc |-> "none", num_nodes |-> 0, graph |-> [nodes |-> <<>>, edges |-> <<>>],
     user_edges |-> <<>>, raised |-> "None"]

\* generate_random_graph, lines 14-20: nx.Graph() with nodes 0..num_nodes-1;
\* user_edges holds the triples the loop of line 24 has taken so far
new_graph(gm, user_nodes) ==
    [gm EXCEPT !.pc = "loop", !.num_nodes = user_nodes,
               !.graph = [nodes |-> [i \in 1..user_nodes |-> i - 1], edges |-> <<>>],
               !.user_edges = <<>>, !.raised = "None"]

\* the loop body without the check of the weight
user_edge_AnyWeight(gm, t) ==
    LET u == t[1]
        v == t[2]
        w == t[3]
        m == [gm EXCEPT !.user_edges = Append(@, t)]
    IN  IF ~(0 <= u /\ u < gm.num_nodes /\ 0 <= v /\ v < gm.num_nodes)
        THEN [m EXCEPT !.pc = "raised", !.raised = "ValueError"]
        ELSE [m EXCEPT !.graph = add_edge(@, u, v, w)]

\* generate_random_graph, lines 24-29: one iteration of the loop over
\* user_edges, for the triple t
user_edge(gm, t) ==
    LET u == t[1]
        v == t[2]
        w == t[3]
        m == [gm EXCEPT !.user_edges = Append(@, t)]
    IN  IF ~(0 <= u /\ u < gm.num_nodes /\ 0 <= v /\ v < gm.num_nodes)
        THEN [m EXCEPT !.pc = "raised", !.raised = "ValueError"]
        ELSE IF w <= 0
        THEN [m EXCEPT !.pc = "raised", !.raised = "ValueError"]
        ELSE [m EXCEPT !.graph = add_edge(@, u, v, w)]

\* generate_random_graph, lines 22-29, for the items of ts still to come;
\* "for u, v, w in user_edges" raises ValueError at an item that is no triple
RECURSIVE add_user_edges(_, _)
add_user_edges(gm, ts) ==
    IF gm.pc = "raised" THEN gm
    ELSE IF ts = <<>> THEN [gm EXCEPT !.pc = "returned"]
    ELSE IF Len(Head(ts)) # 3
    THEN [gm EXCEPT !.pc = "raised", !.raised = "ValueError"]
    ELSE add_user_edges(user_edge(gm, Head(ts)), Tail(ts))

\* generate_random_graph(user_nodes=n, user_edges=ts) for a list ts that is
\* not empty (line 22 sends an empty list to the random branch)
generate_random_graph(user_nodes, user_edges) ==
    add_user_edges(new_graph(NoManager, user_nodes), user_edges)

\* the triples over n nodes that pass the checks of lines 25-28, up to MaxW
GoodTriples(n) == (0..n-1) \X (0..n-1) \X (1..MaxW)

\* the graphs generate_random_graph builds from 1..MaxTriples good triples:
\* self-loops and pairs given twice included
BuiltGraphs ==
    {generate_random_graph(n, ts).graph :
        <<n, ts>> \in UNION {{n} \X [1..k -> GoodTriples(n)] :
                                <<n, k>> \in (0..MaxN) \X (1..MaxTriples)}}

\* a manager that holds the graph, as after adding its edges in their order
Holding(graph) ==
    [pc |-> "returned", num_nodes |-> Len(graph.nodes), graph |-> graph,
     user_edges |-> graph.edges, raised |-> "None"]

(* --------------------------- the engine ------------------------------- *)

VARIABLES
    gm,                 \* the GraphManager: its graph and its loop over user_edges
    num_nodes,          \* MSTAlgorithms.num_nodes
    node_map,           \* MSTAlgorithms.node_map: node label -> dense index
    edges_list,         \* MSTAlgorithms.edges_list
    adj_list,           \* MSTAlgorithms.adj_list
    runtime,            \* MSTAlgorithms.runtime (clock ticks * 1000)
    edge_comparisons,   \* MSTAlgorithms.edge_comparisons
    iterations,         \* MSTAlgorithms.iterations
    last,               \* what the caller got from its latest direct call
    prev,               \* what the caller got from the direct call before it
    gen,                \* the generator object of MSTAnimation, suspended
    trace,              \* the items a consumer has pulled from gen so far
    loc,                \* the locals of a call that is followed statement by statement
    gui                 \* the MSTWindow and its handlers' objects

vars == <<gm, num_nodes, node_map, edges_list, adj_list, runtime,
          edge_comparisons, iterations, last, prev, gen, trace, loc, gui>>

\* the loop of __init__ that fills adj_list from edges_list
RECURSIVE build_adj_list(_, _)
build_adj_list(adj, edges) ==
    IF edges = <<>> THEN adj
    ELSE LET u == Head(edges)[1]
             v == Head(edges)[2]
             w == Head(edges)[3]
             a1 == [adj EXCEPT ![u + 1] = Append(@, <<v, w>>)]
             a2 == [a1 EXCEPT ![v + 1] = Append(@, <<u, w>>)]
         IN  build_adj_list(a2, Tail(edges))

\* reset_metrics() that leaves the counters of the previous run in place
reset_metrics_Keep(self) == [self EXCEPT !.runtime = 0]

\* reset_metrics()
reset_metrics(self) ==
    [self EXCEPT !.runtime = 0, !.edge_comparisons = 0, !.iterations = 0]

\* get_metrics()
get_metrics(self) ==
    [runtime |-> self.runtime,
     edge_comparisons |-> self.edge_comparisons,
     iterations |-> self.iterations]

\* MSTAlgorithms.__init__(graph)
MSTAlgorithms(graph) ==
    LET n  == Len(graph.nodes)
        nm == [node \in Range(graph.nodes) |->
                 (CHOOSE i \in 1..n : graph.nodes[i] = node) - 1]
        el == [k \in 1..Len(graph.edges) |->
                 <<nm[graph.edges[k][1]], nm[graph.edges[k][2]], graph.edges[k][3]>>]
    IN  reset_metrics(
          [num_nodes |-> n,
           node_map |-> nm,
           edges_list |-> el,
           adj_list |-> build_adj_list([i \in 1..n |-> <<>>], el),
           runtime |-> 0, edge_comparisons |-> 0, iterations |-> 0])

(* --------------------------- Union-Find ------------------------------- *)

\* find() without the assignment of line 37: no path compression
RECURSIVE find_NoCompress(_, _)
find_NoCompress(parent, i) ==
    IF parent[i + 1] # i
    THEN find_NoCompress(parent, parent[i + 1])
    ELSE [parent |-> parent, root |-> parent[i + 1]]

\* find(parent, i): the root of i, and parent after path compression
RECURSIVE find(_, _)
find(parent, i) ==
    IF parent[i + 1] # i
    THEN LET r == find(parent, parent[i + 1])
         IN  [parent |-> [r.parent EXCEPT ![i + 1] = r.root], root |-> r.root]
    ELSE [parent |-> parent, root |-> parent[i + 1]]

\* union() that finds the roots but never attaches one tree under the other
union_NoAttach(parent, rank, x, y) ==
    [parent |-> find(find(parent, x).parent, y).parent, rank |-> rank]

\* union(parent, rank, x, y)
union(parent, rank, x, y) ==
    LET fx == find(parent, x)
        fy == find(fx.parent, y)
        p  == fy.parent
    IN  IF fx.root = fy.root THEN [parent |-> p, rank |-> rank]
        ELSE LET px == IF rank[fx.root + 1] < rank[fy.root + 1] THEN fy.root ELSE fx.root
                 py == IF rank[fx.root + 1] < rank[fy.root + 1] THEN fx.root ELSE fy.root
             IN  [parent |-> [p EXCEPT ![py + 1] = px],
                  rank |-> IF rank[px + 1] = rank[py + 1]
                           THEN [rank EXCEPT ![px + 1] = @ + 1]
                           ELSE rank]

(* ----------------------------- Kruskal -------------------------------- *)

\* the loop body without the cycle check "if x != y": every edge is accepted
KruskalStep_NoCycleCheck(st, e) ==
    LET un == union(st.parent, st.rank, e[1], e[2])
    IN  [st EXCEPT !.iterations = @ + 1,
                   !.edge_comparisons = @ + 1,
                   !.mst_edges = Append(@, e),
                   !.parent = un.parent,
                   !.rank = un.rank]

\* one pass of the for loop of kruskal_mst over the edge e
KruskalStep(st, e) ==
    LET fx == find(st.parent, e[1])
        fy == find(fx.parent, e[2])
        x  == fx.root
        y  == fy.root
        counted == [st EXCEPT !.iterations = @ + 1,
                              !.edge_comparisons = @ + 1,
                              !.parent = fy.parent]
    IN  IF x # y
        THEN LET un == union(fy.parent, st.rank, x, y)
             IN  [counted EXCEPT !.mst_edges = Append(@, e),
                                 !.parent = un.parent,
                                 !.rank = un.rank]
        ELSE counted

\* the loop leaving as soon as N-1 edges are accepted
RECURSIVE KruskalLoop_StopsEarly(_, _)
KruskalLoop_StopsEarly(st, edges) ==
    IF edges = <<>> \/ Len(st.mst_edges) = Len(st.parent) - 1 THEN st
    ELSE KruskalLoop_StopsEarly(KruskalStep(st, Head(edges)), Tail(edges))

\* kruskal_mst, lines 69-76: the loop over the sorted edges
RECURSIVE KruskalLoop(_, _)
KruskalLoop(st, edges) ==
    IF edges = <<>> THEN st
    ELSE KruskalLoop(KruskalStep(st, Head(edges)), Tail(edges))

\* Kruskal reporting a forest the way prim_mst reports a partial tree
KruskalCondition_LikePrim(mst_edges, n) ==
    IF Len(mst_edges) < n - 1 THEN Unconnected ELSE NoError

\* kruskal_mst, line 79: the condition returned next to the edges
KruskalCondition(mst_edges, n) == NoError

\* kruskal_mst, lines 59-61: the early return for the empty graph
KruskalEmpty(s0, elapsed) ==
    [self |-> [s0 EXCEPT !.runtime = elapsed * 1000],
     edges |-> <<>>, error |-> EmptyGraph, raised |-> "None"]

\* kruskal_mst() sorting self.edges_list in place instead of a copy
kruskal_mst_SortsInPlace(self, elapsed) ==
    LET s0 == reset_metrics(self)
    IN  IF s0.num_nodes = 0
        THEN KruskalEmpty(s0, elapsed)
        ELSE LET edges == sorted_by_weight(s0.edges_list)
                 st0 == [parent |-> [i \in 1..s0.num_nodes |-> i - 1],
                         rank |-> [i \in 1..s0.num_nodes |-> 0],
                         mst_edges |-> <<>>,
                         iterations |-> s0.iterations,
                         edge_comparisons |-> s0.edge_comparisons
                             + Len(edges) * (bit_length(Len(edges)) - 1)]
                 st == KruskalLoop(st0, edges)
             IN  [self |-> [s0 EXCEPT !.edges_list = edges,
                                      !.runtime = elapsed * 1000,
                                      !.iterations = st.iterations,
                                      !.edge_comparisons = st.edge_comparisons],
                  edges |-> st.mst_edges,
                  error |-> KruskalCondition(st.mst_edges, s0.num_nodes),
                  raised |-> "None"]

\* kruskal_mst(): the engine after the call and the returned pair.
\* elapsed is what time.perf_counter() measured.
kruskal_mst(self, elapsed) ==
    LET s0 == reset_metrics(self)
    IN  IF s0.num_nodes = 0
        THEN KruskalEmpty(s0, elapsed)
        ELSE LET edges == sorted_by_weight(s0.edges_list)
                 st0 == [parent |-> [i \in 1..s0.num_nodes |-> i - 1],
                         rank |-> [i \in 1..s0.num_nodes |-> 0],
                         mst_edges |-> <<>>,
                         iterations |-> s0.iterations,
                         edge_comparisons |-> s0.edge_comparisons
                             + Len(edges) * (bit_length(Len(edges)) - 1)]
                 st == KruskalLoop(st0, edges)
             IN  [self |-> [s0 EXCEPT !.runtime = elapsed * 1000,
                                      !.iterations = st.iterations,
                                      !.edge_comparisons = st.edge_comparisons],
                  edges |-> st.mst_edges,
                  error |-> KruskalCondition(st.mst_edges, s0.num_nodes),
                  raised |-> "None"]

(* ------------------------------ Prim ---------------------------------- *)

\* Python's order on the heap entries (weight, node, parent)
TupleLess(a, b) ==
    \/ a[1] < b[1]
    \/ a[1] = b[1] /\ a[2] < b[2]
    \/ a[1] = b[1] /\ a[2] = b[2] /\ a[3] < b[3]

\* comparing a and b makes Python compare None with an int
Incomparable(a, b) ==
    /\ a[1] = b[1] /\ a[2] = b[2]
    /\ (a[3] = NoParent) # (b[3] = NoParent)

\* a push that enters the item twice
heappush_Twice(heap, item) == Append(Append(heap, item), item)

\* heappush(heap, item): the heap is kept as the list of its entries
heappush(heap, item) == Append(heap, item)

\* a queue that gives back its oldest entry instead of its smallest
heappop_Oldest(heap) ==
    [item |-> heap[1], heap |-> Tail(heap), raised |-> "None"]

\* heappop(heap): removes and returns the smallest entry
heappop(heap) ==
    LET k == CHOOSE i \in 1..Len(heap) :
                 \A j \in 1..Len(heap) :
                     j # i => (TupleLess(heap[i], heap[j]) \/ (heap[i] = heap[j] /\ i < j))
    IN  [item |-> heap[k],
         heap |-> SubSeq(heap, 1, k - 1) \o SubSeq(heap, k + 1, Len(heap)),
         raised |-> IF \E i, j \in 1..Len(heap) : Incomparable(heap[i], heap[j])
                    THEN "TypeError" ELSE "None"]

\* in_heap[v] = w
dict_set(d, key, val) ==
    [x \in DOMAIN d \cup {key} |-> IF x = key THEN val ELSE d[x]]

\* del in_heap[u]
dict_del(d, key) == [x \in DOMAIN d \ {key} |-> d[x]]

\* the relaxation without "or w < in_heap[v]": a lighter edge is never pushed
PrimRelax_NoLighter(st, u, nb) ==
    LET v == nb[1]
        w == nb[2]
    IN  IF v \notin st.visited /\ v \notin DOMAIN st.in_heap
        THEN [st EXCEPT !.heap = heappush(@, <<w, v, u>>),
                        !.in_heap = dict_set(@, v, w),
                        !.edge_comparisons = @ + 1]
        ELSE st

\* the relaxation with "w <= in_heap[v]": an equal weight is pushed again
PrimRelax_LessEq(st, u, nb) ==
    LET v == nb[1]
        w == nb[2]
    IN  IF v \notin st.visited
        THEN IF v \notin DOMAIN st.in_heap \/ w <= st.in_heap[v]
             THEN [st EXCEPT !.heap = heappush(@, <<w, v, u>>),
                             !.in_heap = dict_set(@, v, w),
                             !.edge_comparisons = @ + 1]
             ELSE st
        ELSE st

\* the body of "for v, w in self.adj_list[u]" for one neighbour entry
PrimRelax(st, u, nb) ==
    LET v == nb[1]
        w == nb[2]
    IN  IF v \notin st.visited
        THEN IF v \notin DOMAIN st.in_heap \/ w < st.in_heap[v]
             THEN [st EXCEPT !.heap = heappush(@, <<w, v, u>>),
                             !.in_heap = dict_set(@, v, w),
                             !.edge_comparisons = @ + 1]
             ELSE st
        ELSE st

RECURSIVE PrimRelaxAll(_, _, _)
PrimRelaxAll(st, u, nbs) ==
    IF nbs = <<>> THEN st
    ELSE PrimRelaxAll(PrimRelax(st, u, Head(nbs)), u, Tail(nbs))

\* the pass without "if u in visited: continue"
PrimIter_NoStaleCheck(st, adj) ==
    LET pop == heappop(st.heap)
        weight == pop.item[1]
        u == pop.item[2]
        parent == pop.item[3]
        popped == [st EXCEPT !.iterations = @ + 1,
                             !.edge_comparisons = @ + 1,
                             !.heap = pop.heap]
    IN  IF pop.raised # "None" THEN [popped EXCEPT !.raised = pop.raised]
        ELSE IF u \notin DOMAIN st.in_heap THEN [popped EXCEPT !.visited = @ \cup {u},
                                                               !.raised = "KeyError"]
        ELSE LET marked == [popped EXCEPT
                               !.visited = @ \cup {u},
                               !.in_heap = dict_del(@, u),
                               !.mst_edges = IF parent # NoParent
                                             THEN Append(@, <<parent, u, weight>>)
                                             ELSE @]
             IN  PrimRelaxAll(marked, u, adj[u + 1])

\* the pass without "del in_heap[u]": a visited node keeps its record
PrimIter_NoDelete(st, adj) ==
    LET pop == heappop(st.heap)
        weight == pop.item[1]
        u == pop.item[2]
        parent == pop.item[3]
        popped == [st EXCEPT !.iterations = @ + 1,
                             !.edge_comparisons = @ + 1,
                             !.heap = pop.heap]
    IN  IF pop.raised # "None" THEN [popped EXCEPT !.raised = pop.raised]
        ELSE IF u \in st.visited THEN popped
        ELSE LET marked == [popped EXCEPT
                               !.visited = @ \cup {u},
                               !.mst_edges = IF parent # NoParent
                                             THEN Append(@, <<parent, u, weight>>)
                                             ELSE @]
             IN  PrimRelaxAll(marked, u, adj[u + 1])

\* one pass of "while heap" of prim_mst
PrimIter(st, adj) ==
    LET pop == heappop(st.heap)
        weight == pop.item[1]
        u == pop.item[2]
        parent == pop.item[3]
        popped == [st EXCEPT !.iterations = @ + 1,
                             !.edge_comparisons = @ + 1,
                             !.heap = pop.heap]
    IN  IF pop.raised # "None" THEN [popped EXCEPT !.raised = pop.raised]
        ELSE IF u \in st.visited THEN popped
        ELSE IF u \notin DOMAIN st.in_heap THEN [popped EXCEPT !.visited = @ \cup {u},
                                                               !.raised = "KeyError"]
        ELSE LET marked == [popped EXCEPT
                               !.visited = @ \cup {u},
                               !.in_heap = dict_del(@, u),
                               !.mst_edges = IF parent # NoParent
                                             THEN Append(@, <<parent, u, weight>>)
                                             ELSE @]
             IN  PrimRelaxAll(marked, u, adj[u + 1])

RECURSIVE PrimLoop(_, _)
PrimLoop(st, adj) ==
    IF st.heap = <<>> \/ st.raised # "None" THEN st
    ELSE PrimLoop(PrimIter(st, adj), adj)

\* the sentinel placed on the last node instead of node 0
PrimStart_LastNode(s0) ==
    [visited |-> {},
     heap |-> <<<<0, s0.num_nodes - 1, NoParent>>>>,
     in_heap |-> [x \in {s0.num_nodes - 1} |-> 0],
     mst_edges |-> <<>>,
     iterations |-> s0.iterations,
     edge_comparisons |-> s0.edge_comparisons,
     raised |-> "None"]

\* the locals of prim_mst when the while loop is first reached
PrimStart(s0) ==
    [visited |-> {},
     heap |-> <<<<0, 0, NoParent>>>>,
     in_heap |-> [x \in {0} |-> 0],
     mst_edges |-> <<>>,
     iterations |-> s0.iterations,
     edge_comparisons |-> s0.edge_comparisons,
     raised |-> "None"]

\* the early return without the condition: ([], None)
PrimEmpty_NoCondition(s0, elapsed) ==
    [self |-> [s0 EXCEPT !.runtime = elapsed * 1000],
     edges |-> <<>>, error |-> NoError, raised |-> "None"]

\* prim_mst, lines 92-94: the early return for the empty graph
PrimEmpty(s0, elapsed) ==
    [self |-> [s0 EXCEPT !.runtime = elapsed * 1000],
     edges |-> <<>>, error |-> EmptyGraph, raised |-> "None"]

\* the test "len(visited) < num_nodes" written with <=
PrimCondition_LessEq(visited, n) ==
    IF Cardinality(visited) <= n THEN Unconnected ELSE NoError

\* prim_mst, lines 138-141: the condition returned next to the edges
PrimCondition(visited, n) ==
    IF Cardinality(visited) < n THEN Unconnected ELSE NoError

\* prim_mst(): the engine after the call and the returned pair.
prim_mst(self, elapsed) ==
    LET s0 == reset_metrics(self)
    IN  IF s0.num_nodes = 0
        THEN PrimEmpty(s0, elapsed)
        ELSE LET st == PrimLoop(PrimStart(s0), s0.adj_list)
                 counted == [s0 EXCEPT !.iterations = st.iterations,
                                       !.edge_comparisons = st.edge_comparisons]
             IN  IF st.raised # "None"
                 THEN [self |-> counted, edges |-> <<>>, error |-> NoError,
                       raised |-> st.raised]
                 ELSE [self |-> [counted EXCEPT !.runtime = elapsed * 1000],
                       edges |-> st.mst_edges,
                       error |-> PrimCondition(st.visited, s0.num_nodes),
                       raised |-> "None"]

(* ------------------ the benchmark's prim_mst -------------------------- *)
\* benchmarking/combined_metrics_chart.py has its own prim_mst(graph).  Its
\* locals are those of the engine's loop plus max_unique_nodes; largest is
\* the history of the map: the largest size in_heap has had after any of the
\* statements that change it (lines 79, 97 and 108).

Max(a, b) == IF a >= b THEN a ELSE b

\* line 111: bytes taken for one heap entry
heap_entry_size == 80

\* the sample that forgets the earlier samples: no max()
BenchSample_Overwrite(st) ==
    [st EXCEPT !.max_unique_nodes = Cardinality(DOMAIN st.in_heap)]

\* line 88: max_unique_nodes = max(max_unique_nodes, len(in_heap))
BenchSample(st) ==
    [st EXCEPT !.max_unique_nodes = Max(@, Cardinality(DOMAIN st.in_heap))]

\* lines 104-108, for one neighbour entry nb of u
BenchRelax(st, u, nb) ==
    LET v == nb[1]
        w == nb[2]
    IN  IF v \notin st.visited
        THEN IF v \notin DOMAIN st.in_heap \/ w < st.in_heap[v]
             THEN [st EXCEPT !.heap = heappush(@, <<w, v, u>>),
                             !.in_heap = dict_set(@, v, w),
                             !.largest = Max(@, Cardinality(DOMAIN st.in_heap \cup {v}))]
             ELSE st
        ELSE st

RECURSIVE BenchRelaxAll(_, _, _)
BenchRelaxAll(st, u, nbs) ==
    IF nbs = <<>> THEN st
    ELSE BenchRelaxAll(BenchRelax(st, u, Head(nbs)), u, Tail(nbs))

\* lines 86-108: one pass of the while loop, for the sampled locals st
BenchIter(st, adj) ==
    LET pop == heappop(st.heap)
        weight == pop.item[1]
        u == pop.item[2]
        parent == pop.item[3]
        popped == [st EXCEPT !.heap = pop.heap]
    IN  IF pop.raised # "None" THEN [popped EXCEPT !.raised = pop.raised]
        ELSE IF u \in st.visited THEN popped
        ELSE IF u \notin DOMAIN st.in_heap THEN [popped EXCEPT !.visited = @ \cup {u},
                                                               !.raised = "KeyError"]
        ELSE LET marked == [popped EXCEPT
                               !.visited = @ \cup {u},
                               !.in_heap = dict_del(@, u),
                               !.mst = IF parent # NoParent
                                       THEN Append(@, <<parent, u, weight>>)
                                       ELSE @]
             IN  BenchRelaxAll(marked, u, adj[u + 1])

RECURSIVE BenchLoop(_, _)
BenchLoop(st, adj) ==
    IF st.heap = <<>> \/ st.raised # "None" THEN st
    ELSE BenchLoop(BenchIter(BenchSample(st), adj), adj)

\* prim_mst(graph) of the benchmark: the returned mst, the sampled peak and
\* the bytes line 112 computes from it (line 113 divides them by 1024)
bench_prim_mst(graph) ==
    IF graph.nodes = <<>>
    THEN [mst |-> <<>>, max_unique_nodes |-> 0, spc_bytes |-> 0, largest |-> 0,
          raised |-> "None"]
    ELSE LET n   == Len(graph.nodes)
             adj == build_adj_list([i \in 1..n |-> <<>>], graph.edges)
             st  == BenchLoop([visited |-> {},
                               heap |-> <<<<0, 0, NoParent>>>>,
                               in_heap |-> [x \in {0} |-> 0],
                               mst |-> <<>>,
                               max_unique_nodes |-> 0,
                               largest |-> 1,
                               raised |-> "None"], adj)
         IN  [mst |-> st.mst, max_unique_nodes |-> st.max_unique_nodes,
              spc_bytes |-> st.max_unique_nodes * heap_entry_size,
              largest |-> st.largest, raised |-> st.raised]

(* ----------------------- the trace generator -------------------------- *)

\* no generator has been created; calls counts the executions of the engine
\* call in the generator's body (line 13, line 34)
NoGen ==
    [algo |-> "none", pc |-> "none", mst_edges |-> <<>>, k |-> 0,
     visited_vertices |-> {}, calls |-> 0]

\* what next() raises once the generator has returned
StopIteration == <<"StopIteration">>

\* kruskal_mst_with_animation, line 27: yield ('edge', (u, v))
KruskalEmitEdge(g) ==
    LET e == g.mst_edges[g.k]
    IN  [gen |-> [g EXCEPT !.pc = "y_edge"], item |-> <<"edge", <<e[1], e[2]>>>>]

\* the second endpoint announced without looking at visited_vertices
KruskalCheckV_Always(g) ==
    LET v == g.mst_edges[g.k][2]
    IN  [gen |-> [g EXCEPT !.visited_vertices = @ \cup {v}, !.pc = "y_v"],
         item |-> <<"vertex", v>>]

\* kruskal_mst_with_animation, lines 24-26
KruskalCheckV(g) ==
    LET v == g.mst_edges[g.k][2]
    IN  IF v \notin g.visited_vertices
        THEN [gen |-> [g EXCEPT !.visited_vertices = @ \cup {v}, !.pc = "y_v"],
              item |-> <<"vertex", v>>]
        ELSE KruskalEmitEdge(g)

\* kruskal_mst_with_animation, lines 21-23
KruskalCheckU(g) ==
    LET u == g.mst_edges[g.k][1]
    IN  IF u \notin g.visited_vertices
        THEN [gen |-> [g EXCEPT !.visited_vertices = @ \cup {u}, !.pc = "y_u"],
              item |-> <<"vertex", u>>]
        ELSE KruskalCheckV(g)

\* the generator without line 29: it returns when the edges are used up
KruskalEdgeTop_NoFinal(g, k) ==
    IF k > Len(g.mst_edges)
    THEN [gen |-> [g EXCEPT !.pc = "closed", !.k = k], item |-> StopIteration]
    ELSE KruskalCheckU([g EXCEPT !.k = k])

\* kruskal_mst_with_animation, line 20 reached for the k-th edge, or line 29
KruskalEdgeTop(g, k) ==
    IF k > Len(g.mst_edges)
    THEN [gen |-> [g EXCEPT !.pc = "y_final", !.k = k],
          item |-> <<"final", <<g.mst_edges, NoError>>>>]
    ELSE KruskalCheckU([g EXCEPT !.k = k])

\* kruskal_mst_with_animation, line 15: yield ('final', ([], error))
KruskalErrorItem(mst_edges, error) == <<"final", <<<<>>, error>>>>

\* a generator that asks the engine again at every resumption
kruskal_next_CallsAgain(g, self, elapsed) ==
    IF g.pc = "created"
    THEN LET r == kruskal_mst(self, elapsed)
             c == [g EXCEPT !.calls = @ + 1]
         IN  IF r.error # NoError
             THEN [gen |-> [c EXCEPT !.pc = "y_error"], self |-> r.self,
                   item |-> KruskalErrorItem(r.edges, r.error)]
             ELSE LET t == KruskalEdgeTop(
                               [c EXCEPT !.mst_edges = r.edges, !.visited_vertices = {}], 1)
                  IN  [gen |-> t.gen, self |-> r.self, item |-> t.item]
    ELSE LET r == kruskal_mst(self, elapsed)
             c == [g EXCEPT !.calls = @ + 1, !.mst_edges = r.edges]
             t == CASE g.pc = "y_u" -> KruskalCheckV(c)
                    [] g.pc = "y_v" -> KruskalEmitEdge(c)
                    [] g.pc = "y_edge" -> KruskalEdgeTop(c, g.k + 1)
                    [] OTHER -> [gen |-> [g EXCEPT !.pc = "closed"], item |-> StopIteration]
         IN  [gen |-> t.gen, self |-> r.self, item |-> t.item]

\* next() on the generator of kruskal_mst_with_animation
kruskal_next(g, self, elapsed) ==
    IF g.pc = "created"
    THEN LET r == kruskal_mst(self, elapsed)
             c == [g EXCEPT !.calls = @ + 1]
         IN  IF r.error # NoError
             THEN [gen |-> [c EXCEPT !.pc = "y_error"], self |-> r.self,
                   item |-> KruskalErrorItem(r.edges, r.error)]
             ELSE LET t == KruskalEdgeTop(
                               [c EXCEPT !.mst_edges = r.edges, !.visited_vertices = {}], 1)
                  IN  [gen |-> t.gen, self |-> r.self, item |-> t.item]
    ELSE LET t == CASE g.pc = "y_u" -> KruskalCheckV(g)
                    [] g.pc = "y_v" -> KruskalEmitEdge(g)
                    [] g.pc = "y_edge" -> KruskalEdgeTop(g, g.k + 1)
                    [] OTHER -> [gen |-> [g EXCEPT !.pc = "closed"], item |-> StopIteration]
         IN  [gen |-> t.gen, self |-> self, item |-> t.item]

\* the edge event built from the wrong slots of (parent, u, weight)
PrimEmitEdge_WrongSlots(g) ==
    LET e == g.mst_edges[g.k]
    IN  [gen |-> [g EXCEPT !.pc = "y_edge"], item |-> <<"edge", <<e[2], e[3]>>>>]

\* prim_mst_with_animation, line 49: yield ('edge', (parent, u))
PrimEmitEdge(g) ==
    LET e == g.mst_edges[g.k]
    IN  [gen |-> [g EXCEPT !.pc = "y_edge"], item |-> <<"edge", <<e[1], e[2]>>>>]

\* the loop without lines 46-48: no Vertex event for the new node
PrimEdgeTop_NoVertex(g, k) ==
    IF k > Len(g.mst_edges)
    THEN [gen |-> [g EXCEPT !.pc = "y_final", !.k = k],
          item |-> <<"final", <<g.mst_edges, NoError>>>>]
    ELSE PrimEmitEdge([g EXCEPT !.k = k])

\* prim_mst_with_animation, line 45 reached for the k-th edge, or line 51
PrimEdgeTop(g, k) ==
    IF k > Len(g.mst_edges)
    THEN [gen |-> [g EXCEPT !.pc = "y_final", !.k = k],
          item |-> <<"final", <<g.mst_edges, NoError>>>>]
    ELSE LET u == g.mst_edges[k][2]
         IN  IF u \notin g.visited_vertices
             THEN [gen |-> [g EXCEPT !.visited_vertices = @ \cup {u},
                                     !.pc = "y_u", !.k = k],
                   item |-> <<"vertex", u>>]
             ELSE PrimEmitEdge([g EXCEPT !.k = k])

\* the error event carrying the partial tree prim_mst returned
PrimErrorItem_Partial(mst_edges, error) == <<"final", <<mst_edges, error>>>>

\* prim_mst_with_animation, line 36: yield ('final', ([], error))
PrimErrorItem(mst_edges, error) == <<"final", <<<<>>, error>>>>

\* a replay that counts every resumption as an iteration of the engine
prim_next_CountsReplay(g, self, elapsed) ==
    IF g.pc = "created"
    THEN LET r == prim_mst(self, elapsed)
             c == [g EXCEPT !.calls = @ + 1]
         IN  IF r.raised # "None"
             THEN [gen |-> [c EXCEPT !.pc = "closed"], self |-> r.self,
                   item |-> <<r.raised>>]
             ELSE IF r.error # NoError
             THEN [gen |-> [c EXCEPT !.pc = "y_error"], self |-> r.self,
                   item |-> PrimErrorItem(r.edges, r.error)]
             ELSE [gen |-> [c EXCEPT !.mst_edges = r.edges, !.visited_vertices = {0},
                                     !.pc = "y_start"],
                   self |-> r.self, item |-> <<"vertex", 0>>]
    ELSE LET t == CASE g.pc = "y_start" -> PrimEdgeTop(g, 1)
                    [] g.pc = "y_u" -> PrimEmitEdge(g)
                    [] g.pc = "y_edge" -> PrimEdgeTop(g, g.k + 1)
                    [] OTHER -> [gen |-> [g EXCEPT !.pc = "closed"], item |-> StopIteration]
         IN  [gen |-> t.gen, self |-> [self EXCEPT !.iterations = @ + 1],
              item |-> t.item]

\* next() on the generator of prim_mst_with_animation
prim_next(g, self, elapsed) ==
    IF g.pc = "created"
    THEN LET r == prim_mst(self, elapsed)
             c == [g EXCEPT !.calls = @ + 1]
         IN  IF r.raised # "None"
             THEN [gen |-> [c EXCEPT !.pc = "closed"], self |-> r.self,
                   item |-> <<r.raised>>]
             ELSE IF r.error # NoError
             THEN [gen |-> [c EXCEPT !.pc = "y_error"], self |-> r.self,
                   item |-> PrimErrorItem(r.edges, r.error)]
             ELSE [gen |-> [c EXCEPT !.mst_edges = r.edges, !.visited_vertices = {0},
                                     !.pc = "y_start"],
                   self |-> r.self, item |-> <<"vertex", 0>>]
    ELSE LET t == CASE g.pc = "y_start" -> PrimEdgeTop(g, 1)
                    [] g.pc = "y_u" -> PrimEmitEdge(g)
                    [] g.pc = "y_edge" -> PrimEdgeTop(g, g.k + 1)
                    [] OTHER -> [gen |-> [g EXCEPT !.pc = "closed"], item |-> StopIteration]
         IN  [gen |-> t.gen, self |-> self, item |-> t.item]

(* ---------------------- the runner's consumer ------------------------- *)

\* Python's None in AlgorithmRunner.starting_node
NoNode == -1

\* what the runner reports when the generator ends without a Final item
UnexpectedTermination == "Unexpected termination"

\* next(algorithm_gen), line 133
next_item(g, self, elapsed) ==
    IF g.algo = "kruskal" THEN kruskal_next(g, self, elapsed)
    ELSE prim_next(g, self, elapsed)

\* run_algorithm_generator(algorithm_gen, algo), lines 129-153: pulls until
\* the Final item; steps are the Vertex and Edge items collected so far,
\* starting_node is the runner's attribute.  collect_item is the body of the
\* loop for the pulled item r (lines 134-153).
RECURSIVE run_algorithm_generator(_, _, _, _, _)
RECURSIVE collect_item(_, _, _)
collect_item(r, steps, starting_node) ==
    IF r.item[1] = "StopIteration"
    THEN [gen |-> r.gen, self |-> r.self, steps |-> steps,
          edges |-> <<>>, error |-> UnexpectedTermination, raised |-> "None",
          starting_node |-> IF r.gen.algo = "prim" /\ steps # <<>>
                            THEN 0 ELSE starting_node]
    ELSE IF r.item[1] = "final"
    THEN [gen |-> r.gen, self |-> r.self, steps |-> steps,
          edges |-> r.item[2][1], error |-> r.item[2][2], raised |-> "None",
          starting_node |-> IF r.gen.algo = "prim" /\ steps # <<>>
                            THEN 0 ELSE starting_node]
    ELSE IF r.item[1] = "edge"
    THEN run_algorithm_generator(r.gen, r.self, 0, Append(steps, r.item),
             IF /\ r.gen.algo = "kruskal"
                /\ \A k \in 1..Len(steps) : steps[k][1] # "edge"
             THEN r.item[2][1] ELSE starting_node)
    ELSE IF r.item[1] = "vertex"
    THEN run_algorithm_generator(r.gen, r.self, 0, Append(steps, r.item),
                                 starting_node)
    ELSE [gen |-> r.gen, self |-> r.self, steps |-> steps,
          edges |-> <<>>, error |-> NoError, raised |-> r.item[1],
          starting_node |-> starting_node]

run_algorithm_generator(g, self, elapsed, steps, starting_node) ==
    collect_item(next_item(g, self, elapsed), steps, starting_node)

(* ------------------------- the state machine -------------------------- *)

\* no call is being followed statement by statement
NoLocals == [pc |-> "none", algo |-> "none"]

\* the widgets set_controls_enabled switches (gui.py, lines 95-99)
Controls == {"gen_button", "weight_button", "algo_combo", "run_button", "clear_button"}

\* generate_graph, line 34: more nodes than this make a large graph
LargeGraphAbove == 27

\* MSTWindow.__init__ with its AlgorithmRunner, WeightManager and
\* GraphVisualizer: nothing runs, every control is enabled, no result yet
\* (has_mst: weight_manager.mst is not None; has_result: runner.mst_edges and
\* runner.metrics are not None).  The table and the plot are outputs that no
\* handler reads back; they are left out.  ticks counts the timer's calls of
\* animate_step since the latest start, outcome tells how the latest
\* run_algorithm went on, ignored tells that a handler found an animation
\* running and returned.
NewWindow ==
    [pc |-> "window",
     is_animation_running |-> FALSE,
     timer |-> FALSE,
     enabled |-> Controls,
     large_graph |-> FALSE,
     has_mst |-> FALSE,
     total_graph_weight |-> 0,
     algo |-> "kruskal",
     animation_steps |-> <<>>,
     current_step |-> 0,
     sub_step |-> 0,
     has_result |-> FALSE,
     mst_edges |-> <<>>,
     metrics |-> [runtime |-> 0, edge_comparisons |-> 0, iterations |-> 0],
     starting_node |-> NoNode,
     visited_vertices |-> <<>>,
     highlighted_edges |-> <<>>,
     ticks |-> 0,
     outcome |-> "none",
     ignored |-> FALSE]

\* no window has been constructed
NoWindow == [NewWindow EXCEPT !.pc = "none"]

Self ==
    [num_nodes |-> num_nodes, node_map |-> node_map, edges_list |-> edges_list,
     adj_list |-> adj_list, runtime |-> runtime,
     edge_comparisons |-> edge_comparisons, iterations |-> iterations]

SetSelf(s) ==
    /\ num_nodes' = s.num_nodes
    /\ node_map' = s.node_map
    /\ edges_list' = s.edges_list
    /\ adj_list' = s.adj_list
    /\ runtime' = s.runtime
    /\ edge_comparisons' = s.edge_comparisons
    /\ iterations' = s.iterations

\* the caller has made no call yet
NoCall ==
    [op |-> "none", edges |-> <<>>, error |-> NoError, raised |-> "None",
     iterations |-> 0, edge_comparisons |-> 0]

\* what a caller keeps of a call: the returned pair and get_metrics()
Observed(op, r) ==
    [op |-> op, edges |-> r.edges, error |-> r.error, raised |-> r.raised,
     iterations |-> get_metrics(r.self).iterations,
     edge_comparisons |-> get_metrics(r.self).edge_comparisons]

\* an engine has just been constructed for the graph; window is the GUI's state
EngineAndWindow(graph, window) ==
    LET s == MSTAlgorithms(graph)
    IN  /\ gui = window
        /\ num_nodes = s.num_nodes
        /\ node_map = s.node_map
        /\ edges_list = s.edges_list
        /\ adj_list = s.adj_list
        /\ runtime = s.runtime
        /\ edge_comparisons = s.edge_comparisons
        /\ iterations = s.iterations
        /\ last = NoCall
        /\ prev = NoCall
        /\ gen = NoGen
        /\ trace = <<>>
        /\ loc = NoLocals

EngineFor(graph) == EngineAndWindow(graph, NoWindow)

Init ==
    \E graph \in Graphs :
        /\ gm = Holding(graph)
        /\ EngineFor(graph)

\* as Init, for every graph the construction can build as well
InitAny ==
    \E graph \in Graphs \cup BuiltGraphs :
        /\ gm = Holding(graph)
        /\ EngineFor(graph)

\* generate_random_graph(user_nodes, user_edges) has made its empty graph
\* and is about to take the first triple; there is no engine yet
\* (weight_manager.mst is None), which the engine of no nodes stands for
InitBuild ==
    \E user_nodes \in 0..MaxN :
        /\ gm = new_graph(NoManager, user_nodes)
        /\ EngineFor(NoManager.graph)

\* a caller invokes kruskal_mst()
Kruskal ==
    /\ \E elapsed \in ClockTicks :
         \E r \in {kruskal_mst(Self, elapsed)} :
             /\ SetSelf(r.self)
             /\ last' = Observed("kruskal", r)
    /\ prev' = last
    /\ UNCHANGED <<gm, gen, trace, loc, gui>>

\* a caller invokes prim_mst()
Prim ==
    /\ \E elapsed \in ClockTicks :
         \E r \in {prim_mst(Self, elapsed)} :
             /\ SetSelf(r.self)
             /\ last' = Observed("prim", r)
    /\ prev' = last
    /\ UNCHANGED <<gm, gen, trace, loc, gui>>

\* animator.kruskal_mst_with_animation(): creates the generator, runs nothing
KruskalTrace ==
    /\ gen.algo = "none"
    /\ gen' = [NoGen EXCEPT !.algo = "kruskal", !.pc = "created"]
    /\ UNCHANGED <<gm, num_nodes, node_map, edges_list, adj_list, runtime,
                   edge_comparisons, iterations, last, prev, trace, loc, gui>>

\* animator.prim_mst_with_animation(): creates the generator, runs nothing
PrimTrace ==
    /\ gen.algo = "none"
    /\ gen' = [NoGen EXCEPT !.algo = "prim", !.pc = "created"]
    /\ UNCHANGED <<gm, num_nodes, node_map, edges_list, adj_list, runtime,
                   edge_comparisons, iterations, last, prev, trace, loc, gui>>

\* next(gen): the consumer pulls one item
Pull ==
    /\ gen.algo # "none"
    /\ gen.pc # "closed"
    /\ \E elapsed \in (IF gen.pc = "created" THEN ClockTicks ELSE {0}) :
         \E r \in {next_item(gen, Self, elapsed)} :
             /\ gen' = r.gen
             /\ SetSelf(r.self)
             /\ trace' = IF r.item[1] = "StopIteration" THEN trace ELSE Append(trace, r.item)
    /\ UNCHANGED <<gm, last, prev, loc, gui>>

\* what a caller can put into a triple: endpoints in range, one below and one
\* above; a weight that is zero, negative or positive
UserTriples(n) == (-1..n) \X (-1..n) \X (-1..MaxW)

\* generate_random_graph: the loop of line 24 takes the next triple
AddUserEdge ==
    /\ gm.pc = "loop"
    /\ Len(gm.user_edges) < MaxTriples
    /\ \E t \in UserTriples(gm.num_nodes) : gm' = user_edge(gm, t)
    /\ UNCHANGED <<num_nodes, node_map, edges_list, adj_list, runtime,
                   edge_comparisons, iterations, last, prev, gen, trace, loc, gui>>

\* the list is exhausted: generate_random_graph returns, and the caller
\* constructs the engine for the graph (gui_graph_handler.py, line 90)
Construct ==
    /\ gm.pc = "loop"
    /\ gm.user_edges # <<>>
    /\ gm' = add_user_edges(gm, <<>>)
    /\ SetSelf(MSTAlgorithms(gm.graph))
    /\ UNCHANGED <<last, prev, gen, trace, loc, gui>>

\* what the runner keeps of run_algorithm_generator
Collected(out) ==
    [op |-> "run_algorithm_generator", edges |-> out.edges, error |-> out.error,
     raised |-> out.raised,
     iterations |-> get_metrics(out.self).iterations,
     edge_comparisons |-> get_metrics(out.self).edge_comparisons,
     starting_node |-> out.starting_node]

\* run_algorithm, line 53: the runner pulls a fresh generator until its Final
\* item; trace shows what it pulled
RunGenerator ==
    /\ gen.algo # "none"
    /\ gen.pc = "created"
    /\ \E elapsed \in ClockTicks :
         \E out \in {run_algorithm_generator(gen, Self, elapsed, <<>>, NoNode)} :
             /\ gen' = out.gen
             /\ SetSelf(out.self)
             /\ trace' = IF out.error = UnexpectedTermination \/ out.raised # "None"
                         THEN out.steps
                         ELSE Append(out.steps, <<"final", <<out.edges, out.error>>>>)
             /\ last' = Collected(out)
    /\ prev' = last
    /\ UNCHANGED <<gm, loc, gui>>

\* prim_mst is entered: lines 88-104 up to the first test of "while heap",
\* or the early return of lines 92-94 with the time it took.
\* loc.st holds the locals; pushes and pops are the entries given to heappush
\* and taken by heappop so far, in order.
PrimBegin ==
    /\ loc.pc = "none"
    /\ \E s0 \in {reset_metrics(Self)} :
       \E elapsed \in IF s0.num_nodes = 0 THEN ClockTicks ELSE {0} :
         /\ SetSelf(IF s0.num_nodes = 0 THEN PrimEmpty(s0, elapsed).self ELSE s0)
         /\ loc' = [pc |-> IF s0.num_nodes = 0 THEN "returned" ELSE "while",
                    algo |-> "prim",
                    st |-> IF s0.num_nodes = 0
                           THEN [PrimStart(s0) EXCEPT !.heap = <<>>, !.in_heap = <<>>]
                           ELSE PrimStart(s0),
                    pushes |-> IF s0.num_nodes = 0 THEN <<>> ELSE PrimStart(s0).heap,
                    pops |-> <<>>,
                    edges |-> <<>>,
                    error |-> IF s0.num_nodes = 0 THEN EmptyGraph ELSE NoError]
    /\ UNCHANGED <<gm, last, prev, gen, trace, gui>>

\* prim_mst, lines 107-133: one pass of the while loop
PrimPass ==
    /\ loc.pc = "while"
    /\ loc.st.heap # <<>>
    /\ \E st \in {PrimIter(loc.st, adj_list)} :
         /\ loc' = [loc EXCEPT
                      !.pc = IF st.raised # "None" THEN "raised" ELSE "while",
                      !.st = st,
                      !.pushes = @ \o SubSeq(st.heap, Len(loc.st.heap), Len(st.heap)),
                      !.pops = Append(@, heappop(loc.st.heap).item)]
         /\ iterations' = st.iterations
         /\ edge_comparisons' = st.edge_comparisons
    /\ UNCHANGED <<gm, num_nodes, node_map, edges_list, adj_list, runtime,
                   last, prev, gen, trace, gui>>

\* prim_mst, lines 135-141: the heap is empty, the call returns
PrimReturn ==
    /\ loc.pc = "while"
    /\ loc.st.heap = <<>>
    /\ \E elapsed \in ClockTicks : runtime' = elapsed * 1000
    /\ loc' = [loc EXCEPT !.pc = "returned",
                          !.edges = loc.st.mst_edges,
                          !.error = PrimCondition(loc.st.visited, num_nodes)]
    /\ UNCHANGED <<gm, num_nodes, node_map, edges_list, adj_list,
                   edge_comparisons, iterations, last, prev, gen, trace, gui>>

\* a graph of n nodes without edges
Edgeless(n) == [nodes |-> [i \in 1..n |-> i - 1], edges |-> <<>>]

\* an engine whose find and union a caller is about to use on arrays of its own
InitSets ==
    \E n \in 1..MaxSets :
        /\ gm = Holding(Edgeless(n))
        /\ EngineFor(Edgeless(n))

\* the node reached from i after k steps along parent
RECURSIVE Walk(_, _, _)
Walk(parent, i, k) == IF k = 0 THEN i ELSE Walk(parent, parent[i + 1], k - 1)

\* the number of steps along parent from i to the first node that is its own
\* parent (at most the number of nodes when there is no cycle)
Hops(parent, i) ==
    IF \E k \in 0..Len(parent) : parent[Walk(parent, i, k) + 1] = Walk(parent, i, k)
    THEN CHOOSE k \in 0..Len(parent) :
             /\ parent[Walk(parent, i, k) + 1] = Walk(parent, i, k)
             /\ \A l \in 0..(k - 1) : parent[Walk(parent, i, l) + 1] # Walk(parent, i, l)
    ELSE Len(parent) + 1

\* the arrays as kruskal_mst makes them, lines 65-66: every element is a set
\* of its own.  same[i] is the set of the elements joined with i by the pairs
\* given to union so far; call is the latest call with what find returned
\* and how many steps i was from its root.
MakeSets ==
    /\ loc.pc = "none"
    /\ loc' = [pc |-> "sets", algo |-> "unionfind",
               parent |-> [i \in 1..num_nodes |-> i - 1],
               rank |-> [i \in 1..num_nodes |-> 0],
               same |-> [i \in 1..num_nodes |-> {i - 1}],
               call |-> <<"none", 0, 0, 0>>]
    /\ UNCHANGED <<gm, num_nodes, node_map, edges_list, adj_list, runtime,
                   edge_comparisons, iterations, last, prev, gen, trace, gui>>

\* a call find(parent, i)
FindCall ==
    /\ loc.pc = "sets"
    /\ \E i \in 0..(num_nodes - 1) :
         \E r \in {find(loc.parent, i)} :
             loc' = [loc EXCEPT !.parent = r.parent,
                                !.call = <<"find", i, r.root, Hops(loc.parent, i)>>]
    /\ UNCHANGED <<gm, num_nodes, node_map, edges_list, adj_list, runtime,
                   edge_comparisons, iterations, last, prev, gen, trace, gui>>

\* a call union(parent, rank, x, y)
UnionCall ==
    /\ loc.pc = "sets"
    /\ \E x, y \in 0..(num_nodes - 1) :
         \E un \in {union(loc.parent, loc.rank, x, y)} :
             loc' = [loc EXCEPT
                       !.parent = un.parent,
                       !.rank = un.rank,
                       !.same = [i \in 1..num_nodes |->
                                   IF i - 1 \in @[x + 1] \cup @[y + 1]
                                   THEN @[x + 1] \cup @[y + 1] ELSE @[i]],
                       !.call = <<"union", x, y, 0>>]
    /\ UNCHANGED <<gm, num_nodes, node_map, edges_list, adj_list, runtime,
                   edge_comparisons, iterations, last, prev, gen, trace, gui>>

\* the benchmark calls its prim_mst on the graph (line 145)
BenchPrim ==
    /\ loc.pc = "none"
    /\ \E r \in {bench_prim_mst(gm.graph)} :
         loc' = [pc |-> "returned", algo |-> "bench", mst |-> r.mst,
                 max_unique_nodes |-> r.max_unique_nodes, spc_bytes |-> r.spc_bytes,
                 largest |-> r.largest, raised |-> r.raised]
    /\ UNCHANGED <<gm, num_nodes, node_map, edges_list, adj_list, runtime,
                   edge_comparisons, iterations, last, prev, gen, trace, gui>>

(* ------------------------------ the GUI ------------------------------- *)

\* mst_project.py, lines 14-15: a GraphManager without a graph and the window;
\* weight_manager.mst is None, which the engine of no nodes stands for
InitGui ==
    /\ gm = NoManager
    /\ EngineAndWindow(NoManager.graph, NewWindow)

\* gm.get_graph() is a graph with nodes: "if not graph" fails for None and
\* for a graph without nodes
GraphTruthy == gm.pc # "none" /\ gm.graph.nodes # <<>>

\* GraphManager.has_weights(), for a graph whose edges all carry a weight
\* (0 stands for an edge without the attribute)
has_weights(graph) == \A k \in 1..Len(graph.edges) : graph.edges[k][3] # 0

\* WeightManager.calculate_total_graph_weight()
calculate_total_graph_weight(graph) ==
    IF graph.nodes = <<>> \/ ~has_weights(graph) THEN 0 ELSE TotalWeightOf(graph.edges)

\* the items of an edge list that parse_edges_input accepts for n nodes:
\* (u,v,weight) with a positive weight, or (u,v), the nodes within 0..n-1
TypedItems(n) ==
    ((0..n-1) \X (0..n-1) \X (1..MaxW)) \cup ((0..n-1) \X (0..n-1))

\* the edge lists parse_edges_input returns for the text of edges_input:
\* 1..MaxTyped items
GuiEdgeLists(n) == UNION {[1..k -> TypedItems(n)] : k \in 1..MaxTyped}

\* what the random.sample calls of generate_random_graph, line 38, can give
\* for n nodes: int(n * 0.5) pairs of distinct nodes
SampledPairs(n) ==
    [1..(n \div 2) -> {p \in (0..n-1) \X (0..n-1) : p[1] # p[2]}]

\* generate_random_graph, lines 37-40: the sampled pairs that are not yet
\* edges become edges without a weight (0 stands for the missing attribute)
RECURSIVE add_extra_edges(_, _)
add_extra_edges(graph, pairs) ==
    IF pairs = <<>> THEN graph
    ELSE LET u == Head(pairs)[1]
             v == Head(pairs)[2]
             has_edge == \E k \in 1..Len(graph.edges) :
                            {graph.edges[k][1], graph.edges[k][2]} = {u, v}
         IN  add_extra_edges(IF has_edge THEN graph ELSE add_edge(graph, u, v, 0),
                             Tail(pairs))

\* generate_random_graph(user_nodes=n) without user_edges, lines 31-40: the
\* chain 0-1-...-(n-1) and then the sampled pairs
random_graph(n, pairs) ==
    LET chain == [nodes |-> [i \in 1..n |-> i - 1],
                  edges |-> [i \in 1..(n - 1) |-> <<i - 1, i, 0>>]]
    IN  Holding(add_extra_edges(chain, pairs))

\* what generate_random_graph can leave in the manager for the number n in
\* nodes_input, with edges_input empty or holding an edge list
GeneratedFor ==
    [n \in 0..MaxN |->
        {random_graph(n, pairs) : pairs \in SampledPairs(n)}
            \cup {[Holding(m.graph) EXCEPT !.raised = m.raised] :
                    m \in {generate_random_graph(n, es) : es \in GuiEdgeLists(n)}}]

\* the return of a handler that emptied highlighted_edges before its check
Ignore_AfterClearing ==
    /\ gui' = [gui EXCEPT !.ignored = TRUE, !.highlighted_edges = <<>>]
    /\ UNCHANGED <<gm, num_nodes, node_map, edges_list, adj_list, runtime,
                   edge_comparisons, iterations>>

\* a handler found is_animation_running set and returned
Ignore ==
    /\ gui' = [gui EXCEPT !.ignored = TRUE]
    /\ UNCHANGED <<gm, num_nodes, node_map, edges_list, adj_list, runtime,
                   edge_comparisons, iterations>>

\* GraphHandler.generate_graph() with a number n in nodes_input (0 stands for
\* a number outside 1..500) and m the manager generate_random_graph leaves;
\* when it raised, lines 95-96 show the message: the manager has the graph
\* built so far, weight_manager keeps its engine and its total
generate_graph(n, m) ==
    IF gui.is_animation_running THEN Ignore
    ELSE IF n = 0
    THEN /\ gui' = [gui EXCEPT !.highlighted_edges = <<>>, !.ignored = FALSE]
         /\ UNCHANGED <<gm, num_nodes, node_map, edges_list, adj_list, runtime,
                        edge_comparisons, iterations>>
    ELSE IF m.raised # "None"
    THEN /\ gm' = Holding(m.graph)
         /\ gui' = [gui EXCEPT !.highlighted_edges = <<>>, !.ignored = FALSE,
                               !.large_graph = n > LargeGraphAbove]
         /\ UNCHANGED <<num_nodes, node_map, edges_list, adj_list, runtime,
                        edge_comparisons, iterations>>
    ELSE /\ gm' = m
         /\ SetSelf(MSTAlgorithms(IF has_weights(m.graph) THEN m.graph
                                  ELSE NoManager.graph))
         /\ gui' = [gui EXCEPT
                      !.highlighted_edges = <<>>,
                      !.ignored = FALSE,
                      !.large_graph = n > LargeGraphAbove,
                      !.has_mst = has_weights(m.graph),
                      !.total_graph_weight =
                          IF has_weights(m.graph)
                          THEN calculate_total_graph_weight(m.graph) ELSE @]

\* the Generate Graph button, with a number in nodes_input and edges_input
\* empty or holding an edge list; a click during an animation finds whatever
\* is in the fields (n = 0 stands for it)
GenerateGraph ==
    /\ gui.pc = "window"
    /\ \E n \in 0..MaxN :
         /\ (n = 0 \/ ~gui.is_animation_running)
         /\ \E m \in GeneratedFor[n] : generate_graph(n, m)
    /\ UNCHANGED <<last, prev, gen, trace, loc>>

\* GraphManager.assign_random_weights(): the graph with the weights ws
reweighted(graph, ws) ==
    [graph EXCEPT !.edges = [k \in 1..Len(graph.edges) |->
                                <<graph.edges[k][1], graph.edges[k][2], ws[k]>>]]

\* WeightManager.assign_weights(), random.randint giving the weights ws
assign_weights(ws) ==
    IF gui.is_animation_running THEN Ignore
    ELSE IF ~GraphTruthy
    THEN /\ gui' = [gui EXCEPT !.ignored = FALSE]
         /\ UNCHANGED <<gm, num_nodes, node_map, edges_list, adj_list, runtime,
                        edge_comparisons, iterations>>
    ELSE \E graph \in {reweighted(gm.graph, ws)} :
           /\ gm' = Holding(graph)
           /\ SetSelf(MSTAlgorithms(graph))
           /\ gui' = [gui EXCEPT !.has_mst = TRUE,
                                 !.total_graph_weight = calculate_total_graph_weight(graph),
                                 !.highlighted_edges = <<>>,
                                 !.ignored = FALSE]

\* the weights random.randint gives m edges, those up to MaxW
Weightings(m) == [1..m -> 1..MaxW]

\* the Assign Weights button
AssignWeights ==
    /\ gui.pc = "window"
    /\ \E ws \in Weightings(Len(gm.graph.edges)) : assign_weights(ws)
    /\ UNCHANGED <<last, prev, gen, trace, loc>>

\* run_algorithm, lines 34-74, once the checks of lines 22-32 are passed:
\* out is what run_algorithm_generator collected from the fresh generator
run_algorithm_started(algo, out) ==
    LET reset == [gui EXCEPT
                    !.algo = algo,
                    !.has_mst = TRUE,
                    !.animation_steps = <<>>,
                    !.current_step = 0,
                    !.sub_step = 0,
                    !.starting_node = out.starting_node,
                    !.visited_vertices = <<>>,
                    !.highlighted_edges = <<>>,
                    !.ticks = 0,
                    !.ignored = FALSE]
    IN  IF out.error # NoError
        THEN [reset EXCEPT !.is_animation_running = FALSE, !.enabled = Controls,
                           !.outcome = "error"]
        ELSE IF out.steps # <<>>
        THEN [reset EXCEPT !.is_animation_running = TRUE, !.enabled = {},
                           !.animation_steps = out.steps,
                           !.has_result = TRUE,
                           !.mst_edges = out.edges,
                           !.metrics = get_metrics(out.self),
                           !.timer = TRUE,
                           !.outcome = "animating"]
        ELSE [reset EXCEPT !.is_animation_running = FALSE, !.enabled = Controls,
                           !.has_result = TRUE,
                           !.mst_edges = out.edges,
                           !.metrics = get_metrics(out.self),
                           !.outcome = "no_steps"]

\* AlgorithmRunner.run_algorithm() with algo chosen in algo_combo
run_algorithm(algo, elapsed) ==
    IF gui.is_animation_running THEN Ignore
    ELSE IF ~GraphTruthy \/ ~has_weights(gm.graph)
    THEN /\ gui' = [gui EXCEPT !.ignored = FALSE]
         /\ UNCHANGED <<gm, num_nodes, node_map, edges_list, adj_list, runtime,
                        edge_comparisons, iterations>>
    ELSE \E out \in {run_algorithm_generator(
                         [NoGen EXCEPT !.algo = algo, !.pc = "created"],
                         MSTAlgorithms(gm.graph), elapsed, <<>>, NoNode)} :
           /\ SetSelf(out.self)
           /\ gui' = run_algorithm_started(algo, out)
           /\ UNCHANGED gm

\* the Run Algorithm button
RunAlgorithm ==
    /\ gui.pc = "window"
    /\ \E algo \in {"kruskal", "prim"} :
         \E elapsed \in ClockTicks : run_algorithm(algo, elapsed)
    /\ UNCHANGED <<last, prev, gen, trace, loc>>

\* animate_step showing a step's vertex and edge in one call
animate_step_OneCall(g) ==
    IF g.current_step < Len(g.animation_steps)
    THEN LET step_type == g.animation_steps[g.current_step + 1][1]
             step_data == g.animation_steps[g.current_step + 1][2]
         IN  [g EXCEPT
                !.visited_vertices =
                    IF step_type = "vertex" /\ step_data \notin Range(@)
                    THEN Append(@, step_data) ELSE @,
                !.highlighted_edges =
                    IF step_type = "edge" THEN Append(@, step_data) ELSE @,
                !.current_step = @ + 1]
    ELSE [g EXCEPT
            !.visited_vertices = IF g.starting_node # NoNode
                                 THEN <<g.starting_node>> ELSE <<>>,
            !.timer = FALSE,
            !.is_animation_running = FALSE,
            !.enabled = Controls,
            !.outcome = "done"]

\* AlgorithmRunner.animate_step() on the window g
animate_step(g) ==
    IF g.current_step < Len(g.animation_steps)
    THEN LET step_type == g.animation_steps[g.current_step + 1][1]
             step_data == g.animation_steps[g.current_step + 1][2]
         IN  IF g.sub_step = 0
             THEN [g EXCEPT
                     !.visited_vertices =
                         IF step_type = "vertex" /\ step_data \notin Range(@)
                         THEN Append(@, step_data) ELSE @,
                     !.sub_step = 1]
             ELSE [g EXCEPT
                     !.highlighted_edges =
                         IF step_type = "edge" THEN Append(@, step_data) ELSE @,
                     !.sub_step = 0,
                     !.current_step = @ + 1]
    ELSE [g EXCEPT
            !.visited_vertices = IF g.starting_node # NoNode
                                 THEN <<g.starting_node>> ELSE <<>>,
            !.timer = FALSE,
            !.is_animation_running = FALSE,
            !.enabled = Controls,
            !.outcome = "done"]

\* the timer fires and calls animate_step (gui.py, line 81)
AnimateStep ==
    /\ gui.pc = "window"
    /\ gui.timer
    /\ gui' = [animate_step(gui) EXCEPT !.ticks = @ + 1, !.ignored = FALSE]
    /\ UNCHANGED <<gm, num_nodes, node_map, edges_list, adj_list, runtime,
                   edge_comparisons, iterations, last, prev, gen, trace, loc>>

\* ResetHandler.clear_application()
clear_application ==
    IF gui.is_animation_running THEN Ignore
    ELSE IF gm.pc = "none"
    THEN /\ gui' = [gui EXCEPT !.ignored = FALSE]
         /\ UNCHANGED <<gm, num_nodes, node_map, edges_list, adj_list, runtime,
                        edge_comparisons, iterations>>
    ELSE /\ gm' = Holding(NoManager.graph)
         /\ SetSelf(MSTAlgorithms(NoManager.graph))
         /\ gui' = [gui EXCEPT
                      !.timer = FALSE,
                      !.is_animation_running = FALSE,
                      !.has_mst = FALSE,
                      !.total_graph_weight = 0,
                      !.large_graph = FALSE,
                      !.animation_steps = <<>>,
                      !.current_step = 0,
                      !.has_result = FALSE,
                      !.mst_edges = <<>>,
                      !.metrics = NewWindow.metrics,
                      !.highlighted_edges = <<>>,
                      !.enabled = @ \cup {"gen_button", "weight_button", "clear_button"},
                      !.ignored = FALSE]

\* the Clear button
ClearApplication ==
    /\ gui.pc = "window"
    /\ clear_application
    /\ UNCHANGED <<last, prev, gen, trace, loc>>

\* direct calls on one engine
Next == Kruskal \/ Prim

Spec == Init /\ [][Next]_vars

\* one trace, pulled item by item
NextTrace == KruskalTrace \/ PrimTrace \/ Pull \/ RunGenerator

SpecTrace == Init /\ [][NextTrace]_vars

\* direct calls on an engine for any graph the construction lets through
SpecAny == InitAny /\ [][Next]_vars

\* one call of generate_random_graph with user triples, then the engine
NextBuild == AddUserEdge \/ Construct

SpecBuild == InitBuild /\ [][NextBuild]_vars

\* one call of prim_mst, followed pass by pass; the loop is not abandoned
NextPrimLoop == PrimBegin \/ PrimPass \/ PrimReturn

SpecPrimLoop == InitAny /\ [][NextPrimLoop]_vars /\ WF_vars(NextPrimLoop)

\* any sequence of find and union calls on one pair of arrays
NextSets == MakeSets \/ FindCall \/ UnionCall

SpecSets == InitSets /\ [][NextSets]_vars

\* one run of the benchmark's prim_mst on a graph
NextBench == BenchPrim

SpecBench == InitAny /\ [][NextBench]_vars

\* the window's four buttons and its timer; a started timer keeps firing
NextGui == GenerateGraph \/ AssignWeights \/ RunAlgorithm \/ ClearApplication \/ AnimateStep

SpecGui == InitGui /\ [][NextGui]_vars /\ WF_vars(AnimateStep)

(* ======================= properties of the engine ===================== *)

\* the nodes of the engine
Nodes == 0..(num_nodes - 1)

\* the nodes joined to a node of S by the edges of the sequence R
RECURSIVE ReachBy(_, _)
ReachBy(R, S) ==
    LET more == S \cup {R[k][2] : k \in {j \in 1..Len(R) : R[j][1] \in S}}
                  \cup {R[k][1] : k \in {j \in 1..Len(R) : R[j][2] \in S}}
    IN  IF more = S THEN S ELSE ReachBy(R, more)

\* the graph of the engine is connected
Connected == num_nodes >= 1 /\ ReachBy(edges_list, {0}) = Nodes

\* the number of connected components of the graph of the engine
NumComponents == Cardinality({ReachBy(edges_list, {v}) : v \in Nodes})

\* the sequence R without its k-th element
Without(R, k) == SubSeq(R, 1, k - 1) \o SubSeq(R, k + 1, Len(R))

\* no edge of R closes a cycle: its endpoints differ and the other edges of R
\* do not already join them
Acyclic(R) ==
    \A k \in 1..Len(R) :
        /\ R[k][1] # R[k][2]
        /\ R[k][2] \notin ReachBy(Without(R, k), {R[k][1]})

\* every edge of R is an edge of the graph, in either orientation, with its weight
FromGraph(R) ==
    \A k \in 1..Len(R) :
        \E j \in 1..Len(edges_list) :
            \/ edges_list[j] = R[k]
            \/ edges_list[j] = <<R[k][2], R[k][1], R[k][3]>>

\* the total weight of the edges of R
RECURSIVE TotalWeight(_)
TotalWeight(R) == IF R = <<>> THEN 0 ELSE Head(R)[3] + TotalWeight(Tail(R))

\* a direct call has returned
Called == last.op # "none"

\* C1: on a connected graph with N >= 1 nodes, kruskal() and prim() each
\* return exactly N-1 edges and no error condition.
C1_EdgeCount ==
    (Called /\ Connected) =>
        /\ Len(last.edges) = num_nodes - 1
        /\ last.error = NoError
        /\ last.raised = "None"

\* both algorithms have returned for a connected graph that has a cycle
C1_Witness ==
    /\ Connected /\ num_nodes = 3 /\ Len(edges_list) = 3
    /\ prev.op = "kruskal" /\ Len(prev.edges) = 2
    /\ last.op = "prim" /\ Len(last.edges) = 2

\* the edges of R as unordered pairs of nodes
PairSet(R) == {{R[k][1], R[k][2]} : k \in 1..Len(R)}

\* C2: on a connected graph the edges kruskal() returns and the edges prim()
\* returns each form a spanning tree: every edge is an edge of the graph with
\* its weight, no edge closes a cycle, and the edges join all N nodes.
C2_SpanningTree ==
    (Called /\ Connected) =>
        /\ FromGraph(last.edges)
        /\ Acyclic(last.edges)
        /\ ReachBy(last.edges, {0}) = Nodes

\* Kruskal has returned a tree for a graph in which it had to reject an edge
C2_Witness ==
    /\ Connected /\ num_nodes = 3 /\ PairSet(edges_list) = {{0, 1}, {0, 2}, {1, 2}}
    /\ last.op = "kruskal" /\ Len(last.edges) = 2
    /\ prev.op = "prim"

\* the caller has run both algorithms, one after the other
RanBoth == {prev.op, last.op} = {"kruskal", "prim"}

\* C3: on a connected graph the total weight of kruskal()'s result equals the
\* total weight of prim()'s result, also when the two edge sets differ.
C3_SameWeight ==
    (RanBoth /\ Connected) => TotalWeight(prev.edges) = TotalWeight(last.edges)

\* both have run on a connected graph and chose different edges
C3_Witness ==
    /\ RanBoth /\ Connected
    /\ PairSet(prev.edges) # PairSet(last.edges)

\* the edges of edges_list whose index is in T, in order
RECURSIVE Pick(_, _)
Pick(T, k) ==
    IF k > Len(edges_list) THEN <<>>
    ELSE (IF k \in T THEN <<edges_list[k]>> ELSE <<>>) \o Pick(T, k + 1)

\* the total weights of all spanning trees of the graph, found by trying
\* every set of N-1 edges
SpanningTreeWeights ==
    {TotalWeight(Pick(T, 1)) :
        T \in {X \in SUBSET (1..Len(edges_list)) :
                  /\ Cardinality(X) = num_nodes - 1
                  /\ ReachBy(Pick(X, 1), {0}) = Nodes}}

\* C4: on a connected graph the total weight of the result of kruskal() and
\* of prim() is the minimum total weight over all spanning trees of the graph.
C4_MinimumWeight ==
    (Called /\ Connected) =>
        /\ TotalWeight(last.edges) \in SpanningTreeWeights
        /\ \A w \in SpanningTreeWeights : TotalWeight(last.edges) <= w

\* prim() has returned for a connected graph with spanning trees of different
\* weight, after popping at least one superseded heap entry
C4_Witness ==
    /\ Connected /\ last.op = "prim"
    /\ last.iterations > num_nodes
    /\ Cardinality(SpanningTreeWeights) > 1

\* the nodes that can be reached from node 0
ReachableFromStart == ReachBy(edges_list, {0})

\* C5: when k nodes are reachable from node 0, prim() returns k-1 edges, a
\* tree over those k nodes; with k < N it returns the Unconnected condition,
\* and it returns no error exactly when all N nodes were visited (N >= 1).
C5_PrimPartial ==
    (last.op = "prim" /\ num_nodes >= 1) =>
        /\ Len(last.edges) = Cardinality(ReachableFromStart) - 1
        /\ FromGraph(last.edges)
        /\ ReachBy(last.edges, {0}) = ReachableFromStart
        /\ (Cardinality(ReachableFromStart) < num_nodes => last.error = Unconnected)
        /\ (last.error = NoError <=> Cardinality(ReachableFromStart) = num_nodes)

\* prim() has returned a partial tree of more than one node
C5_Witness ==
    /\ last.op = "prim" /\ num_nodes = 3
    /\ Cardinality(ReachableFromStart) = 2
    /\ Len(last.edges) = 1 /\ last.error = Unconnected

\* C6: for N >= 1, connected or not, kruskal() returns a spanning forest: as
\* many edges as N minus the number of connected components, none closing a
\* cycle, joining exactly the nodes the graph joins; and never an error.
C6_KruskalForest ==
    (last.op = "kruskal" /\ num_nodes >= 1) =>
        /\ Len(last.edges) = num_nodes - NumComponents
        /\ last.error = NoError
        /\ FromGraph(last.edges)
        /\ Acyclic(last.edges)
        /\ \A v \in Nodes : ReachBy(last.edges, {v}) = ReachBy(edges_list, {v})

\* 3 nodes and the single edge (0,1,2): prim() reported Unconnected, then
\* kruskal() returned the same edge and no error
C6_Witness ==
    /\ num_nodes = 3 /\ edges_list = <<<<0, 1, 2>>>>
    /\ prev.op = "prim" /\ prev.edges = <<<<0, 1, 2>>>> /\ prev.error = Unconnected
    /\ last.op = "kruskal" /\ last.edges = <<<<0, 1, 2>>>> /\ last.error = NoError

\* C7: for N = 0, kruskal() and prim() return an empty edge list and the
\* EmptyGraph condition, with runtime >= 0 and both counters left at 0.
C7_EmptyGraph ==
    (Called /\ num_nodes = 0) =>
        /\ last.edges = <<>>
        /\ last.error = EmptyGraph
        /\ runtime >= 0
        /\ iterations = 0 /\ edge_comparisons = 0
        /\ last.iterations = 0 /\ last.edge_comparisons = 0

\* both algorithms have been called on the empty graph
C7_Witness ==
    /\ num_nodes = 0 /\ RanBoth
    /\ last.error = EmptyGraph /\ prev.error = EmptyGraph

\* the engine as __init__ leaves it: the same graph, the metrics at zero
FreshSelf == [Self EXCEPT !.runtime = 0, !.edge_comparisons = 0, !.iterations = 0]

\* the metrics a single call of op leaves on a fresh engine
WorkOf(op) ==
    get_metrics(IF op = "kruskal" THEN kruskal_mst(FreshSelf, 0).self
                ELSE prim_mst(FreshSelf, 0).self)

\* C8: the metrics are reset on entry to every call: after any sequence of
\* calls, iterations and edge_comparisons are those of the last call alone,
\* and calling the same algorithm twice gives the same values both times.
C8_MetricsReset ==
    Called =>
        /\ iterations = WorkOf(last.op).iterations
        /\ edge_comparisons = WorkOf(last.op).edge_comparisons
        /\ (prev.op = last.op =>
                /\ last.iterations = prev.iterations
                /\ last.edge_comparisons = prev.edge_comparisons)

\* kruskal() has been called twice in a row and did count something
C8_Witness ==
    /\ prev.op = "kruskal" /\ last.op = "kruskal"
    /\ prev.iterations > 0 /\ iterations = prev.iterations

\* C15: between calls the engine keeps nothing but its metrics: after any
\* sequence of kruskal() and prim() calls the node count, the index remap,
\* the edge list and the adjacency lists are as __init__ built them from the
\* graph, and a call repeated on the same engine returns the same edge
\* sequence and the same condition.
C15_Stateless ==
    LET built == MSTAlgorithms(gm.graph)
    IN  /\ num_nodes = built.num_nodes
        /\ node_map = built.node_map
        /\ edges_list = built.edges_list
        /\ adj_list = built.adj_list
        /\ (Called /\ prev.op = last.op) =>
              /\ last.edges = prev.edges
              /\ last.error = prev.error

\* kruskal() has been called twice on an engine whose edge list is not in
\* ascending order of weight, and returned a tree both times
C15_Witness ==
    /\ prev.op = "kruskal" /\ last.op = "kruskal"
    /\ edges_list # sorted_by_weight(edges_list)
    /\ Len(last.edges) = 2

\* the place of the edge e in the edge list of the engine
PlaceOf(e) == CHOOSE k \in 1..Len(edges_list) : edges_list[k] = e

\* C19: the edges kruskal() returns are in non-decreasing order of weight,
\* and two returned edges of equal weight are in the order in which the
\* engine's edge list has them (the sort is stable).
C19_StableOrder ==
    last.op = "kruskal" =>
        \A i, j \in 1..Len(last.edges) :
            i < j =>
                /\ last.edges[i][3] <= last.edges[j][3]
                /\ last.edges[i][3] = last.edges[j][3] =>
                      PlaceOf(last.edges[i]) < PlaceOf(last.edges[j])

\* kruskal() has returned two edges of equal weight that stand behind a
\* heavier edge in the edge list
C19_Witness ==
    /\ last.op = "kruskal" /\ Len(edges_list) = 3 /\ Len(last.edges) = 2
    /\ last.edges[1][3] = last.edges[2][3]
    /\ edges_list[1][3] > last.edges[1][3]

\* floor(log2(n)) for n >= 1
FloorLog2(n) == CHOOSE k \in 0..n : 2^k <= n /\ n < 2^(k + 1)

\* C20: kruskal() looks at every edge: for N >= 1 and E edges it returns
\* with iterations = E, also when N-1 edges were accepted before the last
\* edge, and with edge_comparisons = E * floor(log2(E)) + E (0 when E = 0).
C20_EveryEdge ==
    (last.op = "kruskal" /\ num_nodes >= 1) =>
        LET E == Len(edges_list)
        IN  /\ last.iterations = E
            /\ iterations = E
            /\ last.edge_comparisons = IF E = 0 THEN 0 ELSE E * FloorLog2(E) + E
            /\ edge_comparisons = last.edge_comparisons

\* kruskal() has returned for a triangle whose two lightest edges come first
\* in sorted order: the tree was complete before the third edge was looked at
C20_Witness ==
    /\ last.op = "kruskal" /\ num_nodes = 3 /\ Len(edges_list) = 3
    /\ Len(last.edges) = 2
    /\ last.iterations = 3 /\ last.edge_comparisons = 6

(* ======================= properties of the trace ====================== *)

\* the generator has made its engine call
Started == gen.algo # "none" /\ gen.pc # "created"

\* what the engine call of the generator's algorithm returns for this graph
Direct ==
    IF gen.algo = "kruskal" THEN kruskal_mst(FreshSelf, 0) ELSE prim_mst(FreshSelf, 0)

\* the payloads <<u, v>> of the Edge events pulled so far, in order
RECURSIVE EdgeEvents(_)
EdgeEvents(t) ==
    IF t = <<>> THEN <<>>
    ELSE (IF Head(t)[1] = "edge" THEN <<Head(t)[2]>> ELSE <<>>) \o EdgeEvents(Tail(t))

\* the number of events of the given type pulled so far
Count(type) == Cardinality({k \in 1..Len(trace) : trace[k][1] = type})

\* the consumer has pulled the Final event of a successful computation
FinalPulled ==
    /\ trace # <<>>
    /\ trace[Len(trace)][1] = "final"
    /\ trace[Len(trace)][2][2] = NoError

\* C9: in the trace of a successful computation the Final event carries the
\* very sequence the engine call returned, and the Edge events, as unordered
\* pairs, correspond one to one to the edges of that result.
C9_TraceMatchesResult ==
    FinalPulled =>
        LET result == trace[Len(trace)][2][1]
            ev     == EdgeEvents(trace)
        IN  /\ result = Direct.edges
            /\ result = gen.mst_edges
            /\ Len(ev) = Len(result)
            /\ \A k \in 1..Len(result) :
                   Cardinality({j \in 1..Len(ev) :
                       {ev[j][1], ev[j][2]} = {result[k][1], result[k][2]}}) = 1
            /\ \A j \in 1..Len(ev) :
                   \E k \in 1..Len(result) :
                       {ev[j][1], ev[j][2]} = {result[k][1], result[k][2]}

\* a Kruskal trace of two edges over three nodes has been pulled to its end
C9_Witness ==
    /\ FinalPulled /\ gen.algo = "kruskal"
    /\ Len(gen.mst_edges) = 2 /\ Len(trace) = 6

\* C10: when the engine call made by a trace returns an error condition, the
\* trace is the single event Final(empty edge list, error): no Vertex or Edge
\* event, and not the partial tree prim() returned.
C10_ErrorTrace ==
    (Started /\ Direct.error # NoError) =>
        /\ Len(trace) = 1
        /\ trace[1][1] = "final"
        /\ trace[1][2] = <<<<>>, Direct.error>>
        /\ Count("vertex") = 0 /\ Count("edge") = 0

\* prim() returned a partial tree and Unconnected; the trace has ended
C10_Witness ==
    /\ gen.algo = "prim" /\ gen.pc = "closed"
    /\ Direct.error = Unconnected /\ Direct.edges # <<>>
    /\ Len(trace) = 1

\* C11: consuming a trace invokes the engine method exactly once, and replay
\* leaves the metrics alone: after every event that follows the invocation,
\* and after the trace is exhausted, iterations and edge_comparisons are those
\* of a single direct call on the same graph.
C11_OneInvocation ==
    /\ (gen.algo # "none" /\ gen.pc = "created") => gen.calls = 0
    /\ Started =>
          /\ gen.calls = 1
          /\ iterations = WorkOf(gen.algo).iterations
          /\ edge_comparisons = WorkOf(gen.algo).edge_comparisons

\* a Kruskal trace with Vertex and Edge events has been pulled until the
\* generator returned, and the engine did count something
C11_Witness ==
    /\ gen.algo = "kruskal" /\ gen.pc = "closed" /\ gen.calls = 1
    /\ Count("edge") = 2 /\ Count("final") = 1
    /\ iterations = 3

\* the engine as a step leaves it is the engine as the step found it
EngineUntouched ==
    UNCHANGED <<num_nodes, node_map, edges_list, adj_list, runtime,
                edge_comparisons, iterations>>

\* C12 as stated: no pull of a trace runs the engine algorithm or overwrites
\* the engine's metrics record; every pull only replays a result computed
\* before the pull.
C12_NoPullComputes ==
    [][EngineUntouched /\ gen'.calls = gen.calls]_vars

\* C12, amended: the first pull of a trace runs the engine method, once and to
\* completion, before it produces its event; no later pull runs the engine
\* algorithm or overwrites the engine's metrics record: every later pull
\* only replays the result the first pull computed.
C12_OnlyFirstPullComputes ==
    [][/\ gen.pc = "created" => gen'.calls = gen.calls + 1
       /\ gen.pc # "created" =>
             /\ EngineUntouched
             /\ gen'.calls = gen.calls
             /\ gen'.mst_edges = gen.mst_edges]_vars

\* a Prim trace has replayed an edge, pulls after the one that ran prim_mst()
C12_Witness ==
    /\ gen.algo = "prim" /\ gen.calls = 1
    /\ Count("edge") >= 1 /\ Len(trace) >= 3
    /\ iterations >= 2

\* the event at position i of the trace names the node x
Mentions(i, x) ==
    \/ trace[i][1] = "vertex" /\ trace[i][2] = x
    \/ trace[i][1] = "edge" /\ x \in {trace[i][2][1], trace[i][2][2]}

\* the Edge events pulled so far are the first edges of the result, in order
EdgesInResultOrder ==
    LET ev == EdgeEvents(trace)
    IN  /\ Len(ev) <= Len(Direct.edges)
        /\ \A j \in 1..Len(ev) : ev[j] = <<Direct.edges[j][1], Direct.edges[j][2]>>

\* C16: in a successful Kruskal trace the Edge events follow the returned
\* edge sequence in order; a Vertex event names a node no earlier event
\* names and stands immediately before the Edge event of its edge, Vertex(u)
\* before Vertex(v); so no node has two Vertex events, and both endpoints of
\* every Edge event have a Vertex event before it.
C16_KruskalTraceOrder ==
    (Started /\ gen.algo = "kruskal" /\ Direct.error = NoError) =>
        /\ EdgesInResultOrder
        /\ \A i \in 1..Len(trace) :
              trace[i][1] = "vertex" =>
                  /\ \A h \in 1..(i - 1) : ~Mentions(h, trace[i][2])
                  /\ i + 1 <= Len(trace) =>
                        \/ /\ trace[i + 1][1] = "edge"
                           /\ Mentions(i + 1, trace[i][2])
                        \/ /\ trace[i + 1][1] = "vertex"
                           /\ i + 2 <= Len(trace) =>
                                 trace[i + 2] = <<"edge", <<trace[i][2], trace[i + 1][2]>>>>
        /\ \A j \in 1..Len(trace) :
              trace[j][1] = "edge" =>
                  \A x \in {trace[j][2][1], trace[j][2][2]} :
                      \E i \in 1..(j - 1) : trace[i] = <<"vertex", x>>

\* a Kruskal trace in which the second edge brought one new node only:
\* Vertex, Vertex, Edge, Vertex, Edge, Final
C16_Witness ==
    /\ gen.algo = "kruskal" /\ gen.pc = "closed"
    /\ Len(trace) = 6
    /\ trace[1][1] = "vertex" /\ trace[2][1] = "vertex" /\ trace[3][1] = "edge"
    /\ trace[4][1] = "vertex" /\ trace[5][1] = "edge" /\ trace[6][1] = "final"

\* the positions of the Vertex events for node x pulled so far
VertexEvents(x) == {i \in 1..Len(trace) : trace[i] = <<"vertex", x>>}

\* C17: a successful Prim trace starts with Vertex(0); then, for each result
\* edge (parent, u, weight) in order, Vertex(u) for a node no earlier event
\* names, followed at once by Edge(parent, u); the parent of every Edge event
\* had its Vertex event before that, no node has two Vertex events, and when
\* the trace is complete every node has exactly one.
C17_PrimTraceOrder ==
    (Started /\ gen.algo = "prim" /\ Direct.error = NoError) =>
        /\ trace[1] = <<"vertex", 0>>
        /\ EdgesInResultOrder
        /\ \A i \in 2..Len(trace) :
              trace[i][1] = "vertex" =>
                  /\ \A h \in 1..(i - 1) : ~Mentions(h, trace[i][2])
                  /\ i + 1 <= Len(trace) =>
                        /\ trace[i + 1][1] = "edge"
                        /\ trace[i + 1][2][2] = trace[i][2]
        /\ \A j \in 1..Len(trace) :
              trace[j][1] = "edge" =>
                  /\ trace[j - 1] = <<"vertex", trace[j][2][2]>>
                  /\ \E i \in 1..(j - 2) : trace[i] = <<"vertex", trace[j][2][1]>>
        /\ \A x \in Nodes : Cardinality(VertexEvents(x)) <= 1
        /\ FinalPulled => \A x \in Nodes : Cardinality(VertexEvents(x)) = 1

\* a Prim trace over three nodes, complete:
\* Vertex(0), Vertex, Edge, Vertex, Edge, Final
C17_Witness ==
    /\ gen.algo = "prim" /\ FinalPulled /\ num_nodes = 3
    /\ Count("vertex") = 3 /\ Count("edge") = 2
    /\ Len(trace) = 6

\* what the Final event of the trace has to carry
ExpectedFinal ==
    IF Direct.error = NoError THEN <<Direct.edges, NoError>>
    ELSE <<<<>>, Direct.error>>

\* the state part of C18
TraceEndsWithFinal ==
    /\ Len(trace) <= 2 * num_nodes + 1
    /\ \A i \in 1..Len(trace) : trace[i][1] = "final" => i = Len(trace)
    /\ gen.pc = "closed" =>
          /\ trace # <<>>
          /\ trace[Len(trace)] = <<"final", ExpectedFinal>>
    /\ last.op = "run_algorithm_generator" =>
          /\ last.raised = "None"
          /\ last.error # UnexpectedTermination
          /\ <<last.edges, last.error>> = ExpectedFinal
          /\ trace[Len(trace)] = <<"final", ExpectedFinal>>

\* the step part of C18: a generator never goes back
NeverRestarts ==
    gen.algo # "none" =>
        /\ gen'.algo = gen.algo
        /\ gen'.pc # "created"
        /\ gen'.k >= gen.k
        /\ Len(trace') >= Len(trace)
        /\ SubSeq(trace', 1, Len(trace)) = trace
        /\ gen.pc = "closed" => gen' = gen

\* C18: every trace is finite and cannot be restarted, and it ends with one
\* Final event, its last: at most 2N+1 events, nothing after a Final, a
\* successful trace ends with Final(edges, None), and the generator returns
\* only after a Final was pulled, so the runner, pulling until Final, never
\* falls back to 'Unexpected termination'.
C18_EndsWithFinal ==
    []TraceEndsWithFinal /\ [][NeverRestarts]_vars

\* the runner has pulled a Kruskal trace of two edges to its Final event
C18_Witness ==
    /\ last.op = "run_algorithm_generator" /\ gen.algo = "kruskal"
    /\ last.error = NoError /\ Len(last.edges) = 2
    /\ gen.pc = "y_final" /\ trace[Len(trace)][1] = "final"

(* ================= properties of the graph construction =============== *)

\* the graph of the engine has a self-loop
HasSelfLoop == \E k \in 1..Len(edges_list) : edges_list[k][1] = edges_list[k][2]

\* C13: for every graph that passes the construction (N >= 0, endpoints in
\* range, positive weights, connected or not, self-loops included) kruskal()
\* and prim() return one of None, EmptyGraph, Unconnected next to the edge
\* list and never raise: del in_heap[u] always finds its key, and the heap
\* never compares None with a node.
C13_NeverRaises ==
    Called =>
        /\ last.raised = "None"
        /\ last.error \in {NoError, EmptyGraph, Unconnected}
        /\ last.op = "kruskal" => last.error \in {NoError, EmptyGraph}

\* prim() has returned a tree for a graph of two nodes with a self-loop on
\* node 1: the loop was met as a neighbour entry of a visited node
C13_Witness ==
    /\ num_nodes = 2 /\ HasSelfLoop /\ Len(edges_list) = 2
    /\ edges_list[2][1] = 1
    /\ last.op = "prim" /\ last.raised = "None"
    /\ last.error = NoError /\ Len(last.edges) = 1

\* the triple names two of the n declared nodes and a positive weight
ValidTriple(t, n) ==
    /\ 0 <= t[1] /\ t[1] < n
    /\ 0 <= t[2] /\ t[2] < n
    /\ t[3] > 0

\* C14: the construction from user triples over N declared nodes fails with
\* a ValueError exactly when one of the triples it was given has an endpoint
\* outside [0, N) or a weight <= 0; when it succeeds, every edge of the graph
\* and of the engine built from it has both endpoints below N and a positive
\* weight, and joins the endpoints of one of the triples.
C14_InvalidEdge ==
    /\ gm.pc = "raised" <=>
          \E k \in 1..Len(gm.user_edges) : ~ValidTriple(gm.user_edges[k], gm.num_nodes)
    /\ gm.pc = "raised" <=> gm.raised = "ValueError"
    /\ \A k \in 1..Len(gm.graph.edges) :
          /\ ValidTriple(gm.graph.edges[k], gm.num_nodes)
          /\ \E j \in 1..Len(gm.user_edges) :
                {gm.user_edges[j][1], gm.user_edges[j][2]}
                    = {gm.graph.edges[k][1], gm.graph.edges[k][2]}
    /\ gm.pc = "returned" =>
          /\ num_nodes = gm.num_nodes
          /\ edges_list = gm.graph.edges
          /\ \A k \in 1..Len(edges_list) : ValidTriple(edges_list[k], num_nodes)

\* the construction has raised on a weight of zero, after it had added an edge
C14_Witness ==
    /\ gm.pc = "raised" /\ Len(gm.user_edges) = 2
    /\ Len(gm.graph.edges) = 1
    /\ gm.user_edges[2][1] = 0 /\ gm.user_edges[2][2] = 1 /\ gm.user_edges[2][3] = 0

(* ================== properties of the loop of prim_mst ================ *)

\* this step is one pass of the while loop of prim_mst
PassTaken == loc.pc = "while" /\ loc'.pc # "returned"

\* the entry that the pass of this step took from the heap
Popped == loc'.pops[Len(loc'.pops)]

\* the neighbour entries of u that line 127 lets through once u is visited:
\* the entries the in-heap rule of line 129 is applied to
Attempts(u) ==
    Cardinality({k \in 1..Len(adj_list[u + 1]) :
                    adj_list[u + 1][k][1] \notin loc.st.visited \cup {u}})

\* C21: in prim(), every pop adds one to iterations and one to
\* edge_comparisons; a pop of a visited node adds nothing more; a pop of a new
\* node adds one more to edge_comparisons for every neighbour entry the
\* in-heap rule is applied to, whether or not the candidate is pushed.
C21_CountsEveryAttempt ==
    [][PassTaken =>
         /\ iterations' = iterations + 1
         /\ edge_comparisons' = edge_comparisons + 1
                + (IF Popped[2] \in loc.st.visited THEN 0 ELSE Attempts(Popped[2]))]_vars

\* prim_mst is being followed, or has returned
InPrim == loc.algo = "prim"

\* the places in pushes of the entries pushed for node v, in time order
PushesFor(v) == {i \in 1..Len(loc.pushes) : loc.pushes[i][2] = v}

\* C22: in prim(), a candidate for node v is pushed only if v has no recorded
\* weight or the new weight is strictly smaller, and the push overwrites the
\* record: the record of v is the weight of the latest push for v, the weights
\* pushed for one node strictly decrease over time, and the queue never holds
\* two entries with the same (weight, node).
C22_PushesDecrease ==
    InPrim =>
        /\ \A v \in DOMAIN loc.st.in_heap :
              /\ PushesFor(v) # {}
              /\ loc.st.in_heap[v] = loc.pushes[CHOOSE i \in PushesFor(v) :
                                                   \A j \in PushesFor(v) : j <= i][1]
        /\ \A i, j \in 1..Len(loc.pushes) :
              (i < j /\ loc.pushes[i][2] = loc.pushes[j][2])
                  => loc.pushes[j][1] < loc.pushes[i][1]
        /\ \A i, j \in 1..Len(loc.st.heap) :
              (i # j) => ~(/\ loc.st.heap[i][1] = loc.st.heap[j][1]
                           /\ loc.st.heap[i][2] = loc.st.heap[j][2])

\* a lighter edge to a node was found and pushed while the node's earlier,
\* heavier entry was still in the queue
C22_Witness ==
    /\ InPrim
    /\ \E i, j \in 1..Len(loc.st.heap) :
          /\ i < j
          /\ loc.st.heap[i][2] = loc.st.heap[j][2]
          /\ loc.st.heap[j][1] < loc.st.heap[i][1]

\* C23: throughout prim(), the lightest-known map holds only nodes that are
\* not yet visited: at every loop boundary its keys are disjoint from the
\* visited set, every node with a queue entry that is not yet visited has a
\* key, and size(map) + size(visited) <= N.
C23_MapOfUnvisited ==
    InPrim =>
        /\ DOMAIN loc.st.in_heap \cap loc.st.visited = {}
        /\ \A i \in 1..Len(loc.st.heap) :
              loc.st.heap[i][2] \notin loc.st.visited
                  => loc.st.heap[i][2] \in DOMAIN loc.st.in_heap
        /\ Cardinality(DOMAIN loc.st.in_heap) + Cardinality(loc.st.visited) <= num_nodes

\* a loop boundary with two visited nodes and a recorded node, the queue
\* holding more entries than the map has keys
C23_Witness ==
    /\ InPrim
    /\ loc.pc = "while"
    /\ Cardinality(loc.st.visited) >= 2
    /\ DOMAIN loc.st.in_heap # {}
    /\ Len(loc.st.heap) > Cardinality(DOMAIN loc.st.in_heap)

\* the weights of the graph edges that join u to a node visited before this step
JoiningWeights(u) ==
    {edges_list[k][3] : k \in {k \in 1..Len(edges_list) :
        \/ edges_list[k][1] = u /\ edges_list[k][2] \in loc.st.visited
        \/ edges_list[k][2] = u /\ edges_list[k][1] \in loc.st.visited}}

\* C24: in prim(), whenever a node u that is not yet visited is popped, the
\* popped weight is the current lightest-known record of u, which is the
\* minimum weight over the graph edges joining u to a visited node (the
\* sentinel entry of node 0 has no such edge); u is visited from then on, so
\* every later pop of u is stale, and a stale pop changes neither the result
\* nor the visited set nor the map.
C24_PopsLightest ==
    [][PassTaken =>
         IF Popped[2] \notin loc.st.visited
         THEN /\ Popped[1] = loc.st.in_heap[Popped[2]]
              /\ \A w \in JoiningWeights(Popped[2]) : Popped[1] <= w
              /\ Popped[3] # NoParent => Popped[1] \in JoiningWeights(Popped[2])
              /\ Popped[2] \in loc'.st.visited
         ELSE /\ loc'.st.mst_edges = loc.st.mst_edges
              /\ loc'.st.visited = loc.st.visited
              /\ loc'.st.in_heap = loc.st.in_heap]_vars

\* a node was popped twice: first when new, reached over the lighter of two
\* edges, and later again as a stale entry
C24_Witness ==
    /\ InPrim
    /\ \E i, j \in 1..Len(loc.pops) :
          /\ i < j
          /\ loc.pops[i][2] = loc.pops[j][2]
          /\ loc.pops[i][1] < loc.pops[j][1]

\* the place in pops of the first pop of node x (0 if x was never popped)
FirstPop(x) ==
    IF \E i \in 1..Len(loc.pops) : loc.pops[i][2] = x
    THEN CHOOSE i \in 1..Len(loc.pops) :
             /\ loc.pops[i][2] = x
             /\ \A j \in 1..(i - 1) : loc.pops[j][2] # x
    ELSE 0

\* C25: prim() starts at node 0 and returns its edges in discovery order as
\* (parent, child, weight): node 0 is the first node popped and is no edge's
\* child, every other node is the child of at most one result edge (of exactly
\* one if it was popped), the children come in the order in which they were
\* first popped, the parent is node 0 or the child of an earlier result edge,
\* and the weight is that of a graph edge joining parent and child.
C25_DiscoveryOrder ==
    (InPrim /\ loc.pc = "returned" /\ num_nodes > 0) =>
        /\ loc.pops[1] = <<0, 0, NoParent>>
        /\ \A k \in 1..Len(loc.edges) :
              /\ loc.edges[k][2] # 0
              /\ \A l \in 1..Len(loc.edges) :
                    (k < l) => /\ loc.edges[k][2] # loc.edges[l][2]
                               /\ FirstPop(loc.edges[k][2]) < FirstPop(loc.edges[l][2])
              /\ FirstPop(loc.edges[k][2]) > 0
              /\ \/ loc.edges[k][1] = 0
                 \/ \E l \in 1..(k - 1) : loc.edges[l][2] = loc.edges[k][1]
              /\ \E e \in Range(edges_list) :
                    /\ {e[1], e[2]} = {loc.edges[k][1], loc.edges[k][2]}
                    /\ e[3] = loc.edges[k][3]
        /\ \A i \in 1..Len(loc.pops) :
              loc.pops[i][2] # 0
                  => \E k \in 1..Len(loc.edges) : loc.edges[k][2] = loc.pops[i][2]

\* prim_mst returned two edges whose second edge hangs off the child of the first
C25_Witness ==
    /\ InPrim
    /\ loc.pc = "returned"
    /\ Len(loc.edges) >= 2
    /\ loc.edges[2][1] = loc.edges[1][2]

\* the number of adjacency entries of the nodes of S
RECURSIVE AdjacencyEntries(_)
AdjacencyEntries(S) ==
    IF S = {} THEN 0
    ELSE LET u == CHOOSE x \in S : TRUE
         IN  Len(adj_list[u + 1]) + AdjacencyEntries(S \ {u})

\* what C26 bounds at every loop boundary: the entries pushed after the
\* sentinel are at most the adjacency entries of the visited nodes, which are
\* at most 2E; every pop is one iteration; on return the queue is empty and
\* iterations = 1 + number of pushes <= 2E + 1
PushesBounded ==
    (InPrim /\ num_nodes > 0) =>
        /\ Len(loc.pushes) - 1 <= AdjacencyEntries(loc.st.visited)
        /\ AdjacencyEntries(loc.st.visited) <= 2 * Len(edges_list)
        /\ iterations = Len(loc.pops)
        /\ loc.pc = "returned" =>
              /\ loc.st.heap = <<>>
              /\ iterations = 1 + (Len(loc.pushes) - 1)
              /\ iterations <= 2 * Len(edges_list) + 1

\* C26: prim() terminates on every finite graph: each adjacency entry causes
\* at most one push, so the queue empties after at most 2E+1 pops, and
\* iterations = 1 + number of pushes <= 2E+1 on return.
C26_Terminates == []PushesBounded /\ <>(loc.pc = "returned")

\* prim_mst returned on a graph with three edges after more passes than
\* there are nodes: some of its pops were stale
C26_Witness ==
    /\ InPrim
    /\ loc.pc = "returned"
    /\ Len(edges_list) = 3
    /\ iterations > num_nodes

(* ===================== properties of the Union-Find =================== *)

\* find and union are being called on loc.parent and loc.rank
InSets == loc.algo = "unionfind"

\* the root of i: where the parent pointers lead from i
RootOf(parent, i) == Walk(parent, i, Hops(parent, i))

\* the arrays are a disjoint-set forest that agrees with the pairs joined so far
ValidForest ==
    InSets =>
        /\ \A i \in Nodes :
              /\ Hops(loc.parent, i) <= num_nodes - 1
              /\ loc.parent[i + 1] # i
                    => loc.rank[i + 1] < loc.rank[loc.parent[i + 1] + 1]
        /\ \A i, j \in Nodes :
              (RootOf(loc.parent, i) = RootOf(loc.parent, j)) <=> (j \in loc.same[i + 1])

\* this step is a call of find that is visible in the state
FindStep == InSets /\ loc'.call[1] = "find" /\ loc' # loc

\* find returned the root of i and left every node of the path from i
\* pointing at it, the other nodes, the ranks and the sets as they were
FindCompresses ==
    LET i == loc'.call[2]
        path == {Walk(loc.parent, i, k) : k \in 0..Hops(loc.parent, i)}
    IN  /\ loc'.call[3] = RootOf(loc.parent, i)
        /\ \A x \in Nodes :
              loc'.parent[x + 1] = IF x \in path THEN loc'.call[3] ELSE loc.parent[x + 1]
        /\ loc'.rank = loc.rank
        /\ loc'.same = loc.same

\* C27: the Union-Find of kruskal() stays a valid disjoint-set forest after
\* any sequence of find and union calls: the parent pointers have no cycle
\* but the self-loop of a root, every node that is not a root has a strictly
\* smaller rank than its parent, two nodes have the same root exactly when the
\* joined pairs connect them, and find(i) returns the root of i's set and
\* leaves every node on the path pointing directly at that root.
C27_ValidForest == []ValidForest /\ [][FindStep => FindCompresses]_vars

\* find was called on a node two steps away from its root
C27_Witness ==
    /\ InSets
    /\ loc.call[1] = "find"
    /\ loc.call[4] >= 2

(* ====================== properties of the benchmark =================== *)

\* C28: the benchmark's prim_mst samples the peak size of the lightest-known
\* map: the max_unique_nodes it reports is the largest size the in_heap map
\* has at any point of the run (the samples at the top of each pass miss no
\* larger size in between), and it never exceeds N.
C28_PeakOfMap ==
    loc.algo = "bench" =>
        /\ loc.raised = "None"
        /\ loc.max_unique_nodes = IF num_nodes = 0 THEN 0 ELSE loc.largest
        /\ loc.max_unique_nodes <= num_nodes
        /\ loc.spc_bytes = loc.max_unique_nodes * heap_entry_size

\* a run on three nodes in which the map held two nodes at once
C28_Witness ==
    /\ loc.algo = "bench"
    /\ num_nodes = 3
    /\ loc.max_unique_nodes = 2
    /\ Len(loc.mst) = 2

(* ========================= properties of the GUI ====================== *)

\* a step that is not a call of animate_step by the timer
HandlerStep == gui'.ticks # gui.ticks + 1

\* the graph, the engine, the collected steps, the position in them and the
\* highlighted edges stay, and so do the flag and the timer
NothingChanged ==
    /\ gm' = gm
    /\ Self' = Self
    /\ gui'.has_mst = gui.has_mst
    /\ gui'.animation_steps = gui.animation_steps
    /\ gui'.current_step = gui.current_step
    /\ gui'.sub_step = gui.sub_step
    /\ gui'.highlighted_edges = gui.highlighted_edges
    /\ gui'.is_animation_running = gui.is_animation_running
    /\ gui'.timer = gui.timer

\* C29: while an animation is running, generate_graph, assign_weights,
\* run_algorithm and clear_application return without changing the graph, the
\* engine, the collected steps, current_step or the highlighted edges, so no
\* second computation or animation starts
C29_HandlersReturn ==
    [][gui.is_animation_running /\ HandlerStep => NothingChanged]_vars

\* an animation is under way, some of its edges are highlighted, and a
\* handler has just been called and has returned
C29_Witness ==
    /\ gui.is_animation_running
    /\ gui.ignored
    /\ gui.current_step >= 1
    /\ gui.highlighted_edges # <<>>

\* the timer runs exactly while the flag is set; it runs only over collected
\* steps, with the controls disabled, and the controls are enabled otherwise
TimerAndFlag ==
    /\ gui.timer <=> gui.is_animation_running
    /\ gui.is_animation_running =>
           /\ gui.enabled = {}
           /\ Len(gui.animation_steps) >= 1
           /\ gui.ticks <= 2 * Len(gui.animation_steps)
    /\ ~gui.is_animation_running => gui.enabled = Controls

\* a run that ended in an error or without steps never started the timer
EndedInRunAlgorithm ==
    gui.outcome \in {"error", "no_steps"} =>
        /\ gui.ticks = 0
        /\ ~gui.timer
        /\ ~gui.is_animation_running
        /\ gui.enabled = Controls

\* the step that ends an animation is the tick 2k+1 and leaves the trace's
\* edges highlighted in their order
Completion ==
    gui.is_animation_running /\ ~gui'.is_animation_running =>
        /\ gui'.ticks = 2 * Len(gui'.animation_steps) + 1
        /\ gui'.animation_steps = gui.animation_steps
        /\ ~gui'.timer
        /\ gui'.enabled = Controls
        /\ gui'.highlighted_edges = EdgeEvents(gui'.animation_steps)

\* C30: every animation run_algorithm starts completes: with k >= 1 steps,
\* tick 2k+1 of animate_step stops the timer, clears is_animation_running and
\* enables the controls, with highlighted_edges the trace's Edge events in
\* order; a run ending in an error or without steps clears the flag and
\* enables the controls in run_algorithm, and the timer is not started
C30_AnimationCompletes ==
    /\ [](TimerAndFlag /\ EndedInRunAlgorithm)
    /\ [][Completion]_vars
    /\ (gui.is_animation_running ~> ~gui.is_animation_running)

\* an animation of at least two edges has completed
C30_Witness ==
    /\ gui.outcome = "done"
    /\ ~gui.is_animation_running
    /\ gui.ticks = 2 * Len(gui.animation_steps) + 1
    /\ Len(gui.highlighted_edges) >= 2

====
